---- MODULE Spec2Model ----
(***************************************************************************)
(* Flash UI: the session/task orchestrator of src/index.tsx (App).         *)
(*                                                                         *)
(* Texts (html, labels, prompts, messages) are sequences of one-character  *)
(* strings or of whole tokens, so that concatenation, trimming and the     *)
(* stripping of code fences are computed as the code computes them.        *)
(* Indices kept by the program (currentSessionIndex, focusedArtifactIndex, *)
(* slot numbers) are 0-based as in the code; TLA+ sequences are 1-based,   *)
(* so element i of a list is at position i + 1.                            *)
(***************************************************************************)
EXTENDS Integers, Sequences, FiniteSets, TLC

(***************************************************************************)
(* Bounds of the model.                                                    *)
(***************************************************************************)
\* longest session list the model explores
MaxSessions == 2
\* number of text increments the provider delivers over a whole run
MaxIncrements == 4
\* the same, where the streams carry markup or the user acts meanwhile
MaxSharedIncrements == 2
\* longest stream, in frames, that the server's channel carries to the consumer
MaxFrames == 3
\* longest text, in records and other pieces, that parseJsonStream is fed
MaxPieces == 3
\* most times that the same fault is presented to the classifier
MaxCalls == 3
\* longest sequence of events that a provider's stream delivers to the server
MaxEvents == 3
\* longest list of component variations delivered to the drawer
MaxVariations == 1
\* number of errors the API throws over a whole run
MaxFaults == 1
\* number of variations the user applies over a whole run
MaxApplies == 1

\* saved components the library holds at most, the persisted one included
MaxComponents == 3

\* collections the library holds at most
MaxCollections == 2

\* ids generateId() hands out before the last collection is created
MaxIds == 5

\* increments delivered over a whole run of the fair specification
MaxLiveIncrements == 1

VARIABLES
    sessions,               \* useState<Session[]>            index.tsx:45
    currentSessionIndex,    \* useState<number>(-1)           index.tsx:46
    focusedArtifactIndex,   \* useState<number | null>(null)  index.tsx:47
    isLoading,              \* useState<boolean>(false)       index.tsx:50
    drawerState,            \* useState<{isOpen, mode, ...}>  index.tsx:54
    savedComponents,        \* useState(getSavedComponents()) index.tsx:62
    componentVariations,    \* useState<ComponentVariation[]> index.tsx:76
    blendSelection,         \* useState<string[]>([])         index.tsx:97
    job,                    \* the orchestration in flight: the closure of the running handler
    tasks,                  \* per slot, the running generateArtifact: position, the
                            \* placeholder it was called with and accumulatedHtml
    nextId,                 \* source of fresh generateId() values
    delivered,              \* increments delivered so far (bounded by MaxIncrements)
    faults,                 \* errors thrown by the API so far (bounded by MaxFaults)
    applies,                \* variations applied so far (bounded by MaxApplies)
    staleWrite,             \* history: a task of the running fan-out has written
                            \* while its session was not the active one
    selectedModelId,        \* useState<string>(stored || DEFAULT_MODEL) index.tsx:67
    inputValue,             \* useState<string>('')          index.tsx:49
    collections,            \* useState(getCollections())    index.tsx:63
    memo,                   \* per memoized workflow handler, the selectedModelId its
                            \* current closure was created with (useCallback)
    wire,                   \* one request in the server's handler: its position and
                            \* what it has put on the response
    reader,                 \* one run of the stream consumer of utils.ts: the channel,
                            \* the buffer, what was yielded and how it ended
    extractor               \* one run of parseJsonStream: the text it is fed, its
                            \* buffer and the records it has yielded

vars == << sessions, currentSessionIndex, focusedArtifactIndex, isLoading,
           drawerState, savedComponents, componentVariations, blendSelection,
           job, tasks, nextId, delivered, faults, applies, staleWrite,
           selectedModelId, inputValue, collections, memo,
           wire, reader, extractor >>

\* the state of App and of its workflows
appVars == << sessions, currentSessionIndex, focusedArtifactIndex, isLoading,
              drawerState, savedComponents, componentVariations, blendSelection,
              job, tasks, nextId, delivered, faults, applies, staleWrite,
              selectedModelId, inputValue, collections, memo >>

\* null of focusedArtifactIndex (number | null): no artifact is focused
NULL == -1

(***************************************************************************)
(* String helpers (String.prototype.trim / startsWith / endsWith /         *)
(* substring), on sequences of one-character strings.                      *)
(***************************************************************************)
Whitespace == {" ", "\n"}

RECURSIVE TrimStart(_)
TrimStart(s) ==
    IF s = << >> THEN << >>
    ELSE IF Head(s) \in Whitespace THEN TrimStart(Tail(s)) ELSE s

RECURSIVE TrimEnd(_)
TrimEnd(s) ==
    IF s = << >> THEN << >>
    ELSE IF s[Len(s)] \in Whitespace THEN TrimEnd(SubSeq(s, 1, Len(s) - 1)) ELSE s

Trim(s) == TrimEnd(TrimStart(s))

StartsWith(s, p) == Len(s) >= Len(p) /\ SubSeq(s, 1, Len(p)) = p

EndsWith(s, p) == Len(s) >= Len(p) /\ SubSeq(s, Len(s) - Len(p) + 1, Len(s)) = p

\* s.substring(from)
SubstringFrom(s, from) == SubSeq(s, from + 1, Len(s))

\* s.substring(0, to)
SubstringTo(s, to) == SubSeq(s, 1, to)

\* the backquote character, written as a token
Backquote == "BQ"

Fence == << Backquote, Backquote, Backquote >>

FenceHtml == Fence \o << "h", "t", "m", "l" >>

\* the three conditional strips of lines 732-734, applied in order
StripLeadingHtmlFence(s) ==
    IF StartsWith(s, FenceHtml) THEN TrimStart(SubstringFrom(s, 7)) ELSE s

StripLeadingFence(s) ==
    IF StartsWith(s, Fence) THEN TrimStart(SubstringFrom(s, 3)) ELSE s

StripTrailingFence(s) ==
    IF EndsWith(s, Fence) THEN TrimEnd(SubstringTo(s, Len(s) - 3)) ELSE s

\* finalHtml as computed from accumulatedHtml
FinalHtml(acc) ==
    StripTrailingFence(StripLeadingFence(StripLeadingHtmlFence(Trim(acc))))

(***************************************************************************)
(* Inputs: what the user types and what the API stub answers.              *)
(***************************************************************************)
\* slot numbers of a session of five artifacts (Array(5), index.tsx:582)
Slots == 0 .. 4

\* contents of the prompt input at the moment of sending
Prompts == { << " " >>, << "p", " " >> }

\* text increments the stream consumer can yield (never the empty string)
Chunks == { << "a" >>, << " " >>, Fence }

\* the increments of a stream that carries plain text only
PlainChunks == { << "a" >> }

\* e.message of an error thrown by generateContent / streamGenerateContent
Faults == { << "API error" >> }

\* the already parsed array of the naming response: one with more names than
\* slots, and the empty one (no parsable array in the response)
StyleArray == << <<"S1">>, <<"S2">>, <<"S3">>, <<"S4">>, <<"S5">>, <<"S6">> >>

NoStyleArray == << >>

\* placeholders[placeholderIndex], the prompt the Surprise Me button sends
SurprisePrompts == { << "p", " " >> }

\* the cards the user clicks on, to focus them or to select them for a blend
ClickedSlots == 0 .. 1

\* an array with fewer names than either workflow requires
ShortStyleArray == << <<"S1">>, <<"S2">> >>

\* what the naming call can resolve with
NamingResponses == { NoStyleArray, ShortStyleArray, StyleArray }

\* records yielded by parseJsonStream to the variations drawer
Variations == { [name |-> << "V" >>, html |-> << "v" >>],
                [name |-> << >>,     html |-> << "v" >>] }

\* the library found in localStorage when the page loads: one component
\* saved by an earlier page load, whose session is not in memory
PersistedLibrary ==
    << [id |-> << "c", 0 >>, artifactId |-> << 0, 0 >>, sessionId |-> 0,
        prompt |-> << "q" >>, styleName |-> << "Saved" >>, html |-> << "s" >>,
        collectionIds |-> << >>, isFavorite |-> FALSE] >>

\* the collections found in localStorage when the page loads: none
PersistedCollections == << >>

\* ids of the models of AVAILABLE_MODELS the selector offers
Models == { "gemini-3-flash-preview", "other-model" }

DEFAULT_MODEL == "gemini-3-flash-preview"

(***************************************************************************)
(* Diagnostic bodies synthesized by the catch blocks.                      *)
(***************************************************************************)
\* e.message || 'Unknown error occurred'
MessageOf(m) == IF m = << >> THEN << "Unknown error occurred" >> ELSE m

\* errorHtml of generateArtifact's catch; handleSendMessage adds a list of causes
ErrorHtml(kind, m) ==
    IF kind = "send"
    THEN << "[Design Generation Failed]" >> \o MessageOf(m) \o << "[Common issues]" >>
    ELSE << "[Design Generation Failed]" >> \o MessageOf(m)

\* html written by the handler's outer catch
FatalHtml(kind, m) ==
    IF kind = "send"
    THEN << "[Generation Failed]" >> \o MessageOf(m) \o << "[check your API configuration]" >>
    ELSE IF kind = "more" THEN << "[Generation Failed]" >> \o MessageOf(m)
    ELSE << "[Blend Failed]" >> \o MessageOf(m)

\* message of the Error rethrown when the naming call fails
NamingFailure(kind, m) ==
    (IF kind = "send" THEN << "Failed to generate style themes: " >>
                      ELSE << "Failed to generate styles: " >>)
    \o (IF m = << >> THEN << "Unknown error" >> ELSE m)

(***************************************************************************)
(* Sessions and artifacts.                                                 *)
(***************************************************************************)
\* an id that leaves the slot index out
ArtifactIdOfSessionOnly(sessionId, i) == << sessionId, 0 >>

\* `${sessionId}_${i}`
ArtifactId(sessionId, i) == << sessionId, i >>

Placeholder(sessionId, i, label) ==
    [id |-> ArtifactId(sessionId, i), styleName |-> label,
     html |-> << >>, status |-> "streaming"]

\* { ...art, ...patch }
Spread(art, patch) ==
    [f \in DOMAIN art |-> IF f \in DOMAIN patch THEN patch[f] ELSE art[f]]

\* sessions.findIndex(s => s.id === id), 0-based, -1 when absent
FindSessionIndex(list, id) ==
    LET hits == { i \in DOMAIN list : list[i].id = id }
    IN  IF hits = { } THEN -1
        ELSE (CHOOSE i \in hits : \A h \in hits : i <= h) - 1

\* artifacts.findIndex(a => a.id === id), 0-based, -1 when absent
FindArtifactIndex(artifacts, id) ==
    LET hits == { j \in DOMAIN artifacts : artifacts[j].id = id }
    IN  IF hits = { } THEN -1
        ELSE (CHOOSE j \in hits : \A h \in hits : j <= h) - 1

\* a merge addressed by position: the slot of the active session
MergeArtifactOfActiveSession(prev, sessionId, artifactId, patch) ==
    [i \in DOMAIN prev |->
        IF i - 1 = currentSessionIndex
        THEN [prev[i] EXCEPT !.artifacts =
                [j \in DOMAIN prev[i].artifacts |->
                    IF j = FindArtifactIndex(prev[FindSessionIndex(prev, sessionId) + 1].artifacts,
                                             artifactId) + 1
                    THEN Spread(prev[i].artifacts[j], patch)
                    ELSE prev[i].artifacts[j]]]
        ELSE prev[i]]

\* a merge that forgets the test on the artifact id
MergeArtifactOfAnyId(prev, sessionId, artifactId, patch) ==
    [i \in DOMAIN prev |->
        IF prev[i].id = sessionId
        THEN [prev[i] EXCEPT !.artifacts =
                [j \in DOMAIN prev[i].artifacts |-> Spread(prev[i].artifacts[j], patch)]]
        ELSE prev[i]]

\* prev.map(sess => sess.id === sessionId ? {...sess, artifacts:
\*     sess.artifacts.map(art => art.id === artifactId ? {...art, ...patch} : art)} : sess)
MergeArtifact(prev, sessionId, artifactId, patch) ==
    [i \in DOMAIN prev |->
        IF prev[i].id = sessionId
        THEN [prev[i] EXCEPT !.artifacts =
                [j \in DOMAIN prev[i].artifacts |->
                    IF prev[i].artifacts[j].id = artifactId
                    THEN Spread(prev[i].artifacts[j], patch)
                    ELSE prev[i].artifacts[j]]]
        ELSE prev[i]]

\* a merge that forgets the test on the session id
MergeAllArtifactsOfAnySession(prev, sessionId, patch) ==
    [i \in DOMAIN prev |->
        [prev[i] EXCEPT !.artifacts =
            [j \in DOMAIN prev[i].artifacts |-> Spread(prev[i].artifacts[j], patch)]]]

\* prev.map(sess => sess.id !== sessionId ? sess : {...sess, artifacts:
\*     sess.artifacts.map(art => ({...art, ...patch}))})
MergeAllArtifacts(prev, sessionId, patch) ==
    [i \in DOMAIN prev |->
        IF prev[i].id = sessionId
        THEN [prev[i] EXCEPT !.artifacts =
                [j \in DOMAIN prev[i].artifacts |-> Spread(prev[i].artifacts[j], patch)]]
        ELSE prev[i]]

HasSession == currentSessionIndex >= 0 /\ currentSessionIndex < Len(sessions)

\* sessions[currentSessionIndex]
CurrentSession == sessions[currentSessionIndex + 1]

\* currentSession.artifacts[focusedArtifactIndex]
FocusedArtifact == CurrentSession.artifacts[focusedArtifactIndex + 1]

\* useEffect(..., [currentSessionIndex]): the blend selection is cleared
\* whenever the active-session index changes
SelectionAfterSwitch(newIndex) ==
    IF newIndex # currentSessionIndex THEN << >> ELSE blendSelection

NoJob ==
    [kind |-> "none", sessionId |-> -1, pc |-> "idle", source |-> << >>,
     modelId |-> "none", styleResponse |-> << >>]

IdleTasks == [k \in Slots |-> [pc |-> "idle", artifact |-> << >>, acc |-> << >>]]

ClosedDrawer == [isOpen |-> FALSE, mode |-> "none", error |-> FALSE]

\* no request is being handled
NoFault == [classes |-> {"none"}, status |-> 0, statusCode |-> 0]

IdleWire ==
    [pc |-> "idle", endpoint |-> "none", provider |-> "none", stream |-> FALSE,
     headers |-> "none", status |-> 0, body |-> [kind |-> "none", text |-> << >>],
     out |-> << >>, events |-> << >>, end |-> "open", fault |-> NoFault,
     request |-> [method |-> "none", hasPrompt |-> FALSE, knownModel |-> FALSE,
                  hasKey |-> FALSE],
     calls |-> << >>, devCalls |-> << >>]

\* no stream is being consumed
IdleReader == [outcome |-> "idle"]

\* parseJsonStream is not running
IdleExtractor ==
    [state |-> "idle", pieces |-> << >>, rest |-> << >>, buffer |-> << >>,
     yielded |-> << >>, failed |-> FALSE, split |-> FALSE, deep |-> FALSE]

\* the first render creates every memoized handler with the initial selection
FirstRender(modelId) == [send |-> modelId, more |-> modelId, blend |-> modelId]

\* useCallback(fn, deps) at the render that follows a step: the handler is
\* replaced by the closure of the new render, which sees the new
\* selectedModelId, when one of its dependencies has changed (index.tsx:818,
\* 1041, 1218: selectedModelId is not among them); otherwise the old closure
\* is kept.  Dependencies are compared by value here; React compares arrays by
\* reference.
Memoize ==
    memo' = [send  |-> IF << inputValue', isLoading', Len(sessions') >>
                            # << inputValue, isLoading, Len(sessions) >>
                       THEN selectedModelId' ELSE memo.send,
             more  |-> IF << sessions', currentSessionIndex',
                             focusedArtifactIndex', isLoading' >>
                            # << sessions, currentSessionIndex,
                                 focusedArtifactIndex, isLoading >>
                       THEN selectedModelId' ELSE memo.more,
             blend |-> IF << sessions', currentSessionIndex',
                             blendSelection', isLoading' >>
                            # << sessions, currentSessionIndex,
                                 blendSelection, isLoading >>
                       THEN selectedModelId' ELSE memo.blend]

\* App after construction, apart from the server and the consumer
InitApp ==
    /\ sessions = << >>
    /\ currentSessionIndex = -1
    /\ focusedArtifactIndex = NULL
    /\ isLoading = FALSE
    /\ drawerState = ClosedDrawer
    /\ savedComponents = PersistedLibrary
    /\ componentVariations = << >>
    /\ blendSelection = << >>
    /\ job = NoJob
    /\ tasks = IdleTasks
    /\ nextId = 1
    /\ delivered = 0
    /\ faults = 0
    /\ applies = 0
    /\ staleWrite = FALSE
    /\ selectedModelId = DEFAULT_MODEL
    /\ inputValue = << >>
    /\ collections = PersistedCollections
    /\ memo = FirstRender(DEFAULT_MODEL)

Init ==
    /\ sessions = << >>
    /\ currentSessionIndex = -1
    /\ focusedArtifactIndex = NULL
    /\ isLoading = FALSE
    /\ drawerState = ClosedDrawer
    /\ savedComponents = PersistedLibrary
    /\ componentVariations = << >>
    /\ blendSelection = << >>
    /\ job = NoJob
    /\ tasks = IdleTasks
    /\ nextId = 1
    /\ delivered = 0
    /\ faults = 0
    /\ applies = 0
    /\ staleWrite = FALSE
    /\ selectedModelId = DEFAULT_MODEL
    /\ inputValue = << >>
    /\ collections = PersistedCollections
    /\ memo = FirstRender(DEFAULT_MODEL)
    /\ wire = IdleWire
    /\ reader = IdleReader
    /\ extractor = IdleExtractor

(***************************************************************************)
(* handleSendMessage: Start.                                               *)
(***************************************************************************)
\* Start with the new session put in front of the list
handleSendMessagePrepending(manualPrompt) ==
    LET promptToUse == IF manualPrompt # << >> THEN manualPrompt ELSE inputValue
        trimmedInput == Trim(promptToUse)
        sessionId == nextId
        newSession == [id |-> sessionId, prompt |-> trimmedInput,
                       artifacts |-> [i \in 1 .. 5 |->
                           Placeholder(sessionId, i - 1, << "Designing..." >>)]]
    IN  /\ trimmedInput # << >>
        /\ ~isLoading
        /\ Len(sessions) < MaxSessions
        /\ isLoading' = TRUE
        /\ nextId' = nextId + 1
        /\ sessions' = << newSession >> \o sessions
        /\ currentSessionIndex' = Len(sessions)
        /\ focusedArtifactIndex' = NULL
        /\ blendSelection' = SelectionAfterSwitch(Len(sessions))
        /\ job' = [kind |-> "send", sessionId |-> sessionId, pc |-> "naming",
                   source |-> << >>,
                   modelId |-> memo.send, styleResponse |-> << >>]
        /\ tasks' = IdleTasks
        /\ staleWrite' = FALSE
        /\ inputValue' = (IF manualPrompt = << >> THEN << >> ELSE inputValue)
        /\ UNCHANGED << drawerState, savedComponents, wire, reader, extractor,
                        selectedModelId, collections, componentVariations,
                        delivered, faults, applies >>
        /\ Memoize

handleSendMessage(manualPrompt) ==
    LET promptToUse == IF manualPrompt # << >> THEN manualPrompt ELSE inputValue
        trimmedInput == Trim(promptToUse)
        sessionId == nextId
        newSession == [id |-> sessionId, prompt |-> trimmedInput,
                       artifacts |-> [i \in 1 .. 5 |->
                           Placeholder(sessionId, i - 1, << "Designing..." >>)]]
    IN  /\ trimmedInput # << >>
        /\ ~isLoading
        /\ Len(sessions) < MaxSessions
        /\ isLoading' = TRUE
        /\ nextId' = nextId + 1
        /\ sessions' = Append(sessions, newSession)
        /\ currentSessionIndex' = Len(sessions)
        /\ focusedArtifactIndex' = NULL
        /\ blendSelection' = SelectionAfterSwitch(Len(sessions))
        /\ job' = [kind |-> "send", sessionId |-> sessionId, pc |-> "naming",
                   source |-> << >>,
                   modelId |-> memo.send, styleResponse |-> << >>]
        /\ tasks' = IdleTasks
        /\ staleWrite' = FALSE
        /\ inputValue' = (IF manualPrompt = << >> THEN << >> ELSE inputValue)
        /\ UNCHANGED << drawerState, savedComponents, wire, reader, extractor,
                        selectedModelId, collections, componentVariations,
                        delivered, faults, applies >>
        /\ Memoize

(***************************************************************************)
(* The naming call made before fan-out, and fan-out.                       *)
(***************************************************************************)
SendFallbackStyles ==
    << << "Molten Glass Cascade" >>, << "Pressed Botanical Archive" >>,
       << "Neon Noir Circuit" >>, << "Weathered Industrial Patina" >>,
       << "Crystalline Frost Formation" >> >>

MoreFallbackStyles(source) ==
    << source \o << " - Refined" >>, source \o << " - Bold" >>,
       source \o << " - Minimal" >>, source \o << " - Warm" >> >>

\* the names as they were received, with no default
GeneratedStylesAsReceived(kind, response, source) == response

\* generatedStyles after the length test and slice(0, n)
GeneratedStyles(kind, response, source) ==
    IF kind = "send"
    THEN IF Len(response) < 5 THEN SendFallbackStyles ELSE SubSeq(response, 1, 5)
    ELSE IF Len(response) < 4 THEN MoreFallbackStyles(source) ELSE SubSeq(response, 1, 4)

\* the styleName written for slot i by the label update
NewLabel(kind, styles, i, old) ==
    IF kind = "more"
    THEN IF i = 0 THEN old ELSE IF i <= Len(styles) THEN styles[i] ELSE old
    ELSE IF i + 1 <= Len(styles) THEN styles[i + 1] ELSE << "Designing..." >>

\* prev.map(s => s.id !== sessionId ? s : {...s, artifacts:
\*     s.artifacts.map((art, i) => ({...art, styleName: ...}))})
LabelArtifacts(prev, sessionId, kind, styles) ==
    [n \in DOMAIN prev |->
        IF prev[n].id = sessionId
        THEN [prev[n] EXCEPT !.artifacts =
                [j \in DOMAIN prev[n].artifacts |->
                    [prev[n].artifacts[j] EXCEPT
                        !.styleName = NewLabel(kind, styles, j - 1, @)]]]
        ELSE prev[n]]

\* the slots for which generateArtifact is called
\* a fan-out that starts a task for every slot, whatever the workflow
LaunchedSlotsAll(kind) == Slots

LaunchedSlots(kind) == IF kind = "more" THEN 1 .. 4 ELSE Slots

\* generateArtifact(artifact, styleName) is called with placeholder k of the session
LaunchTasks(kind, sessionId) ==
    [k \in Slots |-> IF k \in LaunchedSlots(kind)
                     THEN [pc |-> "reading", artifact |-> ArtifactId(sessionId, k),
                           acc |-> << >>]
                     ELSE [pc |-> "idle", artifact |-> << >>, acc |-> << >>]]

\* generateContent resolves: labels are written and every task is started
NamingReturns(response) ==
    /\ job.pc = "naming"
    /\ sessions' = LabelArtifacts(sessions, job.sessionId, job.kind,
                        GeneratedStyles(job.kind, response, job.source))
    /\ job' = [job EXCEPT !.pc = "fanout", !.styleResponse = response]
    /\ tasks' = LaunchTasks(job.kind, job.sessionId)
    /\ UNCHANGED << currentSessionIndex, focusedArtifactIndex, isLoading, drawerState,
                    savedComponents, wire, reader, extractor, selectedModelId, inputValue, collections, componentVariations, blendSelection, nextId,
                    delivered, faults, applies, staleWrite >>
    /\ Memoize

\* generateContent throws: the handler's outer catch and finally
NamingThrows(m) ==
    /\ job.pc = "naming"
    /\ faults < MaxFaults
    /\ faults' = faults + 1
    /\ sessions' = MergeAllArtifacts(sessions, job.sessionId,
                        [html |-> FatalHtml(job.kind, NamingFailure(job.kind, m)),
                         status |-> "error", styleName |-> << "Error" >>])
    /\ isLoading' = FALSE
    /\ job' = NoJob
    /\ UNCHANGED << currentSessionIndex, focusedArtifactIndex, drawerState,
                    savedComponents, wire, reader, extractor, selectedModelId, inputValue, collections, componentVariations, blendSelection, tasks,
                    nextId, delivered, applies, staleWrite >>
    /\ Memoize

(***************************************************************************)
(* generateArtifact: one task per launched slot.                           *)
(***************************************************************************)
\* a finally that runs when the first task settles
SettlesAtOnce(k) == TRUE

\* Promise.all resolves with the last task: the handler's finally runs
Settles(k) ==
    \A j \in LaunchedSlots(job.kind) \ {k} : tasks[j].pc \in {"ended", "thrown"}

Finally(k) ==
    /\ isLoading' = (IF Settles(k) THEN FALSE ELSE isLoading)
    /\ job' = (IF Settles(k) THEN NoJob ELSE job)

\* history of the writes of stale tasks
WritesWhileStale ==
    staleWrite' = (staleWrite \/ ~HasSession \/ CurrentSession.id # job.sessionId)

\* a loop body that writes the last increment instead of the accumulation
TaskIncrementReplacing(k, text) ==
    LET accumulatedHtml == tasks[k].acc \o text
    IN  /\ job.pc = "fanout"
        /\ tasks[k].pc = "reading"
        /\ delivered < MaxIncrements
        /\ delivered' = delivered + 1
        /\ tasks' = [tasks EXCEPT ![k].acc = accumulatedHtml]
        /\ sessions' = MergeArtifact(sessions, job.sessionId, tasks[k].artifact,
                            [html |-> text])
        /\ UNCHANGED << currentSessionIndex, focusedArtifactIndex, isLoading,
                        drawerState, savedComponents, wire, reader, extractor, selectedModelId, inputValue, collections, componentVariations,
                        blendSelection, job, nextId, faults, applies >>
        /\ Memoize
        /\ WritesWhileStale

\* body of the for await loop
TaskIncrement(k, text) ==
    LET accumulatedHtml == tasks[k].acc \o text
    IN  /\ job.pc = "fanout"
        /\ tasks[k].pc = "reading"
        /\ delivered < MaxIncrements
        /\ delivered' = delivered + 1
        /\ tasks' = [tasks EXCEPT ![k].acc = accumulatedHtml]
        /\ sessions' = MergeArtifact(sessions, job.sessionId, tasks[k].artifact,
                            [html |-> accumulatedHtml])
        /\ UNCHANGED << currentSessionIndex, focusedArtifactIndex, isLoading,
                        drawerState, savedComponents, wire, reader, extractor, selectedModelId, inputValue, collections, componentVariations,
                        blendSelection, job, nextId, faults, applies >>
        /\ Memoize
        /\ WritesWhileStale

\* the patch written when the stream threw an error, or handleSendMessage
\* found the result empty
ErrorPatch(kind, m) ==
    [html |-> ErrorHtml(kind, m), status |-> "error", styleName |-> << "Error" >>]

\* a completion that writes the accumulation as received
CompletionPatchUntrimmed(kind, acc) ==
    IF acc = << >>
    THEN ErrorPatch(kind, << "No HTML content received from API" >>)
    ELSE [html |-> acc, status |-> "complete"]

\* the patch written after the loop ended: lines 731-747, 969-981, 1149-1161
CompletionPatch(kind, acc) ==
    LET finalHtml == FinalHtml(acc)
    IN  IF kind = "send"
        THEN IF finalHtml = << >>
             THEN ErrorPatch(kind, << "No HTML content received from API" >>)
             ELSE [html |-> finalHtml, status |-> "complete"]
        ELSE [html |-> finalHtml,
              status |-> IF finalHtml # << >> THEN "complete" ELSE "error"]

\* the stream ends naturally
TaskEnd(k) ==
    /\ job.pc = "fanout"
    /\ tasks[k].pc = "reading"
    /\ tasks' = [tasks EXCEPT ![k].pc = "ended"]
    /\ sessions' = MergeArtifact(sessions, job.sessionId, tasks[k].artifact,
                        CompletionPatch(job.kind, tasks[k].acc))
    /\ Finally(k)
    /\ WritesWhileStale
    /\ UNCHANGED << currentSessionIndex, focusedArtifactIndex, drawerState,
                    savedComponents, wire, reader, extractor, selectedModelId, inputValue, collections, componentVariations, blendSelection, nextId,
                    delivered, faults, applies >>
    /\ Memoize

\* a task without its own catch: the rejection reaches Promise.all and the
\* handler's outer catch marks every artifact of the session
TaskThrowUncaught(k, m) ==
    /\ job.pc = "fanout"
    /\ tasks[k].pc = "reading"
    /\ faults < MaxFaults
    /\ faults' = faults + 1
    /\ tasks' = [j \in Slots |-> IF tasks[j].pc = "reading"
                                  THEN [tasks[j] EXCEPT !.pc = "thrown"] ELSE tasks[j]]
    /\ sessions' = MergeAllArtifacts(sessions, job.sessionId,
                        [html |-> FatalHtml(job.kind, m), status |-> "error",
                         styleName |-> << "Error" >>])
    /\ isLoading' = FALSE
    /\ job' = NoJob
    /\ WritesWhileStale
    /\ UNCHANGED << currentSessionIndex, focusedArtifactIndex, drawerState,
                    savedComponents, wire, reader, extractor, selectedModelId, inputValue, collections, componentVariations, blendSelection, nextId,
                    delivered, applies >>
    /\ Memoize

\* the stream throws (network error, error frame, timeout)
TaskThrow(k, m) ==
    /\ job.pc = "fanout"
    /\ tasks[k].pc = "reading"
    /\ faults < MaxFaults
    /\ faults' = faults + 1
    /\ tasks' = [tasks EXCEPT ![k].pc = "thrown"]
    /\ sessions' = MergeArtifact(sessions, job.sessionId, tasks[k].artifact,
                        ErrorPatch(job.kind, m))
    /\ Finally(k)
    /\ WritesWhileStale
    /\ UNCHANGED << currentSessionIndex, focusedArtifactIndex, drawerState,
                    savedComponents, wire, reader, extractor, selectedModelId, inputValue, collections, componentVariations, blendSelection, nextId,
                    delivered, applies >>
    /\ Memoize

(***************************************************************************)
(* handleMoreLikeThis and handleBlendStyles.                               *)
(***************************************************************************)
\* More like this without the test on the status of the focused artifact
handleMoreLikeThisOfAnyArtifact ==
    /\ HasSession
    /\ focusedArtifactIndex # NULL
    /\ ~isLoading
    /\ Len(sessions) < MaxSessions
    /\ LET session == CurrentSession
           sourceArtifact == FocusedArtifact
           sessionId == nextId
           newSession ==
               [id |-> sessionId,
                prompt |-> << "Similar to: " >> \o session.prompt,
                artifacts |-> [i \in 1 .. 5 |->
                    IF i = 1
                    THEN [id |-> ArtifactId(sessionId, 0),
                          styleName |-> sourceArtifact.styleName \o << " (Original)" >>,
                          html |-> sourceArtifact.html,
                          status |-> "complete"]
                    ELSE Placeholder(sessionId, i - 1, << "Designing..." >>)]]
       IN  /\ sessions' = Append(sessions, newSession)
           /\ job' = [kind |-> "more", sessionId |-> sessionId, pc |-> "naming",
                      source |-> sourceArtifact.styleName,
                      modelId |-> memo.more, styleResponse |-> << >>]
    /\ isLoading' = TRUE
    /\ nextId' = nextId + 1
    /\ currentSessionIndex' = Len(sessions)
    /\ focusedArtifactIndex' = NULL
    /\ blendSelection' = SelectionAfterSwitch(Len(sessions))
    /\ tasks' = IdleTasks
    /\ staleWrite' = FALSE
    /\ UNCHANGED << drawerState, savedComponents, wire, reader, extractor, selectedModelId, inputValue, collections, componentVariations, delivered, faults, applies >>
    /\ Memoize

handleMoreLikeThis ==
    /\ HasSession
    /\ focusedArtifactIndex # NULL
    /\ ~isLoading
    /\ FocusedArtifact.status = "complete"
    /\ Len(sessions) < MaxSessions
    /\ LET session == CurrentSession
           sourceArtifact == FocusedArtifact
           sessionId == nextId
           newSession ==
               [id |-> sessionId,
                prompt |-> << "Similar to: " >> \o session.prompt,
                artifacts |-> [i \in 1 .. 5 |->
                    IF i = 1
                    THEN [id |-> ArtifactId(sessionId, 0),
                          styleName |-> sourceArtifact.styleName \o << " (Original)" >>,
                          html |-> sourceArtifact.html,
                          status |-> "complete"]
                    ELSE Placeholder(sessionId, i - 1, << "Designing..." >>)]]
       IN  /\ sessions' = Append(sessions, newSession)
           /\ job' = [kind |-> "more", sessionId |-> sessionId, pc |-> "naming",
                      source |-> sourceArtifact.styleName,
                      modelId |-> memo.more, styleResponse |-> << >>]
    /\ isLoading' = TRUE
    /\ nextId' = nextId + 1
    /\ currentSessionIndex' = Len(sessions)
    /\ focusedArtifactIndex' = NULL
    /\ blendSelection' = SelectionAfterSwitch(Len(sessions))
    /\ tasks' = IdleTasks
    /\ staleWrite' = FALSE
    /\ UNCHANGED << drawerState, savedComponents, wire, reader, extractor, selectedModelId, inputValue, collections, componentVariations, delivered, faults, applies >>
    /\ Memoize

BlendNames(artifact1, artifact2) ==
    << artifact1.styleName \o << " x " >> \o artifact2.styleName \o << " (50/50)" >>,
       artifact1.styleName \o << " dominant" >>,
       artifact2.styleName \o << " dominant" >>,
       << "Fusion: Structure meets Texture" >>,
       << "Hybrid: Best of Both" >> >>

\* no await separates the append, the label update and the start of the tasks
handleBlendStyles ==
    /\ HasSession
    /\ Len(blendSelection) = 2
    /\ ~isLoading
    /\ Len(sessions) < MaxSessions
    /\ LET session == CurrentSession
           \* session.artifacts.find(a => a.id === blendSelection[n])
           index1 == FindArtifactIndex(session.artifacts, blendSelection[1])
           index2 == FindArtifactIndex(session.artifacts, blendSelection[2])
           artifact1 == session.artifacts[index1 + 1]
           artifact2 == session.artifacts[index2 + 1]
           sessionId == nextId
       IN  /\ index1 >= 0
           /\ index2 >= 0
           /\ artifact1.status = "complete"
           /\ artifact2.status = "complete"
           /\ sessions' = LabelArtifacts(
                  Append(sessions,
                      [id |-> sessionId,
                       prompt |-> << "Blend: " >> \o artifact1.styleName
                                    \o << " + " >> \o artifact2.styleName,
                       artifacts |-> [i \in 1 .. 5 |->
                           Placeholder(sessionId, i - 1, << "Blending..." >>)]]),
                  sessionId, "blend", BlendNames(artifact1, artifact2))
           /\ job' = [kind |-> "blend", sessionId |-> sessionId, pc |-> "fanout",
                      source |-> << >>,
                      modelId |-> memo.blend, styleResponse |-> << >>]
    /\ isLoading' = TRUE
    /\ blendSelection' = << >>
    /\ nextId' = nextId + 1
    /\ currentSessionIndex' = Len(sessions)
    /\ focusedArtifactIndex' = NULL
    /\ tasks' = LaunchTasks("blend", nextId)
    /\ staleWrite' = FALSE
    /\ UNCHANGED << drawerState, savedComponents, wire, reader, extractor, selectedModelId, inputValue, collections, componentVariations, delivered, faults, applies >>
    /\ Memoize

\* a toggle that drops the newer of the two ids held
handleToggleBlendSelectionKeepingOlder(artifactId) ==
    /\ HasSession
    /\ \E j \in DOMAIN CurrentSession.artifacts :
          /\ CurrentSession.artifacts[j].id = artifactId
          /\ CurrentSession.artifacts[j].status = "complete"
    /\ blendSelection' =
          (IF \E n \in DOMAIN blendSelection : blendSelection[n] = artifactId
           THEN SelectSeq(blendSelection, LAMBDA id : id # artifactId)
           ELSE IF Len(blendSelection) < 2
                THEN Append(blendSelection, artifactId)
                ELSE << blendSelection[1], artifactId >>)
    /\ UNCHANGED << sessions, currentSessionIndex, focusedArtifactIndex, isLoading,
                    drawerState, savedComponents, wire, reader, extractor, selectedModelId, inputValue, collections, componentVariations, job, tasks,
                    nextId, delivered, faults, applies, staleWrite >>
    /\ Memoize

\* blend toggle of a card: rendered for the complete artifacts of the current session
handleToggleBlendSelection(artifactId) ==
    /\ HasSession
    /\ \E j \in DOMAIN CurrentSession.artifacts :
          /\ CurrentSession.artifacts[j].id = artifactId
          /\ CurrentSession.artifacts[j].status = "complete"
    /\ blendSelection' =
          (IF \E n \in DOMAIN blendSelection : blendSelection[n] = artifactId
           THEN SelectSeq(blendSelection, LAMBDA id : id # artifactId)
           ELSE IF Len(blendSelection) < 2
                THEN Append(blendSelection, artifactId)
                ELSE << blendSelection[2], artifactId >>)
    /\ UNCHANGED << sessions, currentSessionIndex, focusedArtifactIndex, isLoading,
                    drawerState, savedComponents, wire, reader, extractor, selectedModelId, inputValue, collections, componentVariations, job, tasks,
                    nextId, delivered, faults, applies, staleWrite >>
    /\ Memoize

(***************************************************************************)
(* handleGenerateVariations (Explore UX) and applyVariation.               *)
(***************************************************************************)
\* Explore without the test on the loading flag
handleGenerateVariationsWhileLoading ==
    /\ HasSession
    /\ focusedArtifactIndex # NULL
    /\ Trim(CurrentSession.prompt) # << >>
    /\ componentVariations' = << >>
    /\ IF Trim(FocusedArtifact.html) = << >>
       THEN /\ drawerState' = [isOpen |-> TRUE, mode |-> "variations", error |-> TRUE]
            /\ UNCHANGED << isLoading, job >>
       ELSE /\ drawerState' = [isOpen |-> TRUE, mode |-> "variations", error |-> FALSE]
            /\ isLoading' = TRUE
            /\ job' = [kind |-> "variations", sessionId |-> -1, pc |-> "stream",
                       source |-> << >>,
                       modelId |-> selectedModelId, styleResponse |-> << >>]
    /\ UNCHANGED << sessions, currentSessionIndex, focusedArtifactIndex,
                    savedComponents, wire, reader, extractor, selectedModelId, inputValue, collections, blendSelection, tasks, nextId, delivered, faults, applies, staleWrite >>
    /\ Memoize

handleGenerateVariations ==
    /\ HasSession
    /\ focusedArtifactIndex # NULL
    /\ ~isLoading
    /\ Trim(CurrentSession.prompt) # << >>
    /\ componentVariations' = << >>
    /\ IF Trim(FocusedArtifact.html) = << >>
       THEN /\ drawerState' = [isOpen |-> TRUE, mode |-> "variations", error |-> TRUE]
            /\ UNCHANGED << isLoading, job >>
       ELSE /\ drawerState' = [isOpen |-> TRUE, mode |-> "variations", error |-> FALSE]
            /\ isLoading' = TRUE
            /\ job' = [kind |-> "variations", sessionId |-> -1, pc |-> "stream",
                       source |-> << >>,
                       modelId |-> selectedModelId, styleResponse |-> << >>]
    /\ UNCHANGED << sessions, currentSessionIndex, focusedArtifactIndex,
                    savedComponents, wire, reader, extractor, selectedModelId, inputValue, collections, blendSelection, tasks, nextId, delivered, faults, applies, staleWrite >>
    /\ Memoize

\* one record yielded by parseJsonStream
VariationYield(variation) ==
    /\ job.pc = "stream"
    /\ Len(componentVariations) < MaxVariations
    /\ componentVariations' =
          (IF variation.name # << >> /\ variation.html # << >>
           THEN Append(componentVariations, variation)
           ELSE componentVariations)
    /\ UNCHANGED << sessions, currentSessionIndex, focusedArtifactIndex, isLoading,
                    drawerState, savedComponents, wire, reader, extractor, selectedModelId, inputValue, collections, blendSelection, job, tasks,
                    nextId, delivered, faults, applies, staleWrite >>
    /\ Memoize

VariationsEnd ==
    /\ job.pc = "stream"
    /\ isLoading' = FALSE
    /\ job' = NoJob
    /\ UNCHANGED << sessions, currentSessionIndex, focusedArtifactIndex, drawerState,
                    savedComponents, wire, reader, extractor, selectedModelId, inputValue, collections, componentVariations, blendSelection, tasks,
                    nextId, delivered, faults, applies, staleWrite >>
    /\ Memoize

VariationsThrow ==
    /\ job.pc = "stream"
    /\ faults < MaxFaults
    /\ faults' = faults + 1
    /\ drawerState' = [drawerState EXCEPT !.error = TRUE]
    /\ isLoading' = FALSE
    /\ job' = NoJob
    /\ UNCHANGED << sessions, currentSessionIndex, focusedArtifactIndex,
                    savedComponents, wire, reader, extractor, selectedModelId, inputValue, collections, componentVariations, blendSelection, tasks,
                    nextId, delivered, applies, staleWrite >>
    /\ Memoize

\* an update that filters where it should map: the other artifacts are dropped
ApplyAtDroppingOthers(prev, sessionIndex, artifactIndex, variation) ==
    [i \in DOMAIN prev |->
        IF i - 1 = sessionIndex
        THEN [prev[i] EXCEPT !.artifacts =
                << Spread(prev[i].artifacts[artifactIndex + 1],
                          [html |-> variation.html, status |-> "complete"]) >>]
        ELSE prev[i]]

\* prev.map((sess, i) => i === currentSessionIndex ? {...sess, artifacts:
\*     sess.artifacts.map((art, j) => j === focusedArtifactIndex ? {...} : art)} : sess)
ApplyAt(prev, sessionIndex, artifactIndex, variation) ==
    [i \in DOMAIN prev |->
        IF i - 1 = sessionIndex
        THEN [prev[i] EXCEPT !.artifacts =
                [j \in DOMAIN prev[i].artifacts |->
                    IF j - 1 = artifactIndex
                    THEN Spread(prev[i].artifacts[j],
                            [html |-> variation.html,
                             styleName |-> IF variation.name # << >>
                                           THEN variation.name
                                           ELSE prev[i].artifacts[j].styleName,
                             status |-> "complete"])
                    ELSE prev[i].artifacts[j]]]
        ELSE prev[i]]

\* click on a card of the variations drawer
applyVariation(n) ==
    /\ drawerState.isOpen
    /\ applies < MaxApplies
    /\ applies' = applies + 1
    /\ drawerState.mode = "variations"
    /\ ~drawerState.error
    /\ n \in DOMAIN componentVariations
    /\ focusedArtifactIndex # NULL
    /\ componentVariations[n].html # << >>
    /\ sessions' = ApplyAt(sessions, currentSessionIndex, focusedArtifactIndex,
                           componentVariations[n])
    /\ drawerState' = [drawerState EXCEPT !.isOpen = FALSE]
    /\ UNCHANGED << currentSessionIndex, focusedArtifactIndex, isLoading,
                    savedComponents, wire, reader, extractor, selectedModelId, inputValue, collections, componentVariations, blendSelection, job, tasks,
                    nextId, delivered, faults, staleWrite >>
    /\ Memoize

(***************************************************************************)
(* Navigation, focus and the library drawer.                               *)
(***************************************************************************)
\* onClick of a card of the current session: setFocusedArtifactIndex(aIndex)
FocusArtifact(aIndex) ==
    /\ HasSession
    /\ aIndex + 1 \in DOMAIN CurrentSession.artifacts
    /\ focusedArtifactIndex # aIndex
    /\ focusedArtifactIndex' = aIndex
    /\ UNCHANGED << sessions, currentSessionIndex, isLoading, drawerState,
                    savedComponents, wire, reader, extractor, selectedModelId, inputValue, collections, componentVariations, blendSelection, job, tasks,
                    nextId, delivered, faults, applies, staleWrite >>
    /\ Memoize

\* the Grid View button: setFocusedArtifactIndex(null)
GridView ==
    /\ focusedArtifactIndex # NULL
    /\ focusedArtifactIndex' = NULL
    /\ UNCHANGED << sessions, currentSessionIndex, isLoading, drawerState,
                    savedComponents, wire, reader, extractor, selectedModelId, inputValue, collections, componentVariations, blendSelection, job, tasks,
                    nextId, delivered, faults, applies, staleWrite >>
    /\ Memoize

hasStarted == Len(sessions) > 0 \/ isLoading

canGoForward ==
    /\ hasStarted
    /\ IF focusedArtifactIndex # NULL
       THEN focusedArtifactIndex <
              (IF HasSession THEN Len(CurrentSession.artifacts) ELSE 0) - 1
       ELSE currentSessionIndex < Len(sessions) - 1

canGoBack ==
    /\ hasStarted
    /\ IF focusedArtifactIndex # NULL
       THEN focusedArtifactIndex > 0
       ELSE currentSessionIndex > 0

\* the right handle is rendered when canGoForward
nextItem ==
    /\ canGoForward
    /\ IF focusedArtifactIndex # NULL
       THEN /\ focusedArtifactIndex' =
                  (IF focusedArtifactIndex < 4 THEN focusedArtifactIndex + 1
                                               ELSE focusedArtifactIndex)
            /\ UNCHANGED << currentSessionIndex, blendSelection >>
       ELSE /\ currentSessionIndex' =
                  (IF currentSessionIndex < Len(sessions) - 1
                   THEN currentSessionIndex + 1 ELSE currentSessionIndex)
            /\ blendSelection' = << >>
            /\ UNCHANGED focusedArtifactIndex
    /\ UNCHANGED << sessions, isLoading, drawerState, savedComponents, wire, reader, extractor, selectedModelId, inputValue, collections,
                    componentVariations, job, tasks, nextId, delivered, faults, applies, staleWrite >>
    /\ Memoize

\* the left handle is rendered when canGoBack
prevItem ==
    /\ canGoBack
    /\ IF focusedArtifactIndex # NULL
       THEN /\ focusedArtifactIndex' =
                  (IF focusedArtifactIndex > 0 THEN focusedArtifactIndex - 1
                                               ELSE focusedArtifactIndex)
            /\ UNCHANGED << currentSessionIndex, blendSelection >>
       ELSE /\ currentSessionIndex' =
                  (IF currentSessionIndex > 0
                   THEN currentSessionIndex - 1 ELSE currentSessionIndex)
            /\ blendSelection' = << >>
            /\ UNCHANGED focusedArtifactIndex
    /\ UNCHANGED << sessions, isLoading, drawerState, savedComponents, wire, reader, extractor, selectedModelId, inputValue, collections,
                    componentVariations, job, tasks, nextId, delivered, faults, applies, staleWrite >>
    /\ Memoize

\* library menu: setDrawerState({isOpen: true, mode: 'library', ...})
OpenLibrary ==
    /\ ~(drawerState.isOpen /\ drawerState.mode = "library")
    /\ drawerState' = [isOpen |-> TRUE, mode |-> "library", error |-> FALSE]
    /\ UNCHANGED << sessions, currentSessionIndex, focusedArtifactIndex, isLoading,
                    savedComponents, wire, reader, extractor, selectedModelId, inputValue, collections, componentVariations, blendSelection, job, tasks,
                    nextId, delivered, faults, applies, staleWrite >>
    /\ Memoize

\* onClose of the drawer: setDrawerState(s => ({...s, isOpen: false}))
CloseDrawer ==
    /\ drawerState.isOpen
    /\ drawerState' = [drawerState EXCEPT !.isOpen = FALSE]
    /\ UNCHANGED << sessions, currentSessionIndex, focusedArtifactIndex, isLoading,
                    savedComponents, wire, reader, extractor, selectedModelId, inputValue, collections, componentVariations, blendSelection, job, tasks,
                    nextId, delivered, faults, applies, staleWrite >>
    /\ Memoize

\* a select that sets the list to the component's session instead of appending
handleComponentSelectReplacing(n) ==
    /\ drawerState.isOpen
    /\ drawerState.mode = "library"
    /\ n \in DOMAIN savedComponents
    /\ Len(sessions) < MaxSessions
    /\ sessions' = << [id |-> savedComponents[n].sessionId,
                       prompt |-> savedComponents[n].prompt,
                       artifacts |-> << [id |-> savedComponents[n].artifactId,
                                         styleName |-> savedComponents[n].styleName,
                                         html |-> savedComponents[n].html,
                                         status |-> "complete"] >>] >>
    /\ currentSessionIndex' = 0
    /\ focusedArtifactIndex' = 0
    /\ blendSelection' = SelectionAfterSwitch(0)
    /\ drawerState' = ClosedDrawer
    /\ UNCHANGED << isLoading, savedComponents, wire, reader, extractor, selectedModelId, inputValue, collections, componentVariations, job, tasks,
                    nextId, delivered, faults, applies, staleWrite >>
    /\ Memoize

\* click on a component of the library drawer
handleComponentSelect(n) ==
    /\ drawerState.isOpen
    /\ drawerState.mode = "library"
    /\ n \in DOMAIN savedComponents
    /\ LET component == savedComponents[n]
           sessionIndex == FindSessionIndex(sessions, component.sessionId)
       IN  IF sessionIndex >= 0
           THEN LET artifactIndex ==
                        FindArtifactIndex(sessions[sessionIndex + 1].artifacts,
                                          component.artifactId)
                IN  /\ artifactIndex >= 0
                    /\ currentSessionIndex' = sessionIndex
                    /\ focusedArtifactIndex' = artifactIndex
                    /\ blendSelection' = SelectionAfterSwitch(sessionIndex)
                    /\ UNCHANGED sessions
           ELSE /\ Len(sessions) < MaxSessions
                /\ sessions' = Append(sessions,
                       [id |-> component.sessionId,
                        prompt |-> component.prompt,
                        artifacts |-> << [id |-> component.artifactId,
                                          styleName |-> component.styleName,
                                          html |-> component.html,
                                          status |-> "complete"] >>])
                /\ currentSessionIndex' = Len(sessions)
                /\ focusedArtifactIndex' = 0
                /\ blendSelection' = SelectionAfterSwitch(Len(sessions))
    /\ drawerState' = ClosedDrawer
    /\ UNCHANGED << isLoading, savedComponents, wire, reader, extractor, selectedModelId, inputValue, collections, componentVariations, job, tasks,
                    nextId, delivered, faults, applies, staleWrite >>
    /\ Memoize

(***************************************************************************)
(* The prompt input and the model selector.                                *)
(***************************************************************************)
\* onChange of the prompt input: setInputValue(event.target.value)
handleInputChange(value) ==
    /\ inputValue # value
    /\ inputValue' = value
    /\ UNCHANGED << sessions, currentSessionIndex, focusedArtifactIndex, isLoading,
                    drawerState, savedComponents, componentVariations, blendSelection,
                    job, tasks, nextId, delivered, faults, applies, staleWrite,
                    selectedModelId, collections, wire, reader, extractor >>
    /\ Memoize

\* onModelChange of the model selector
setSelectedModelId(modelId) ==
    /\ selectedModelId # modelId
    /\ selectedModelId' = modelId
    /\ UNCHANGED << sessions, currentSessionIndex, focusedArtifactIndex, isLoading,
                    drawerState, savedComponents, componentVariations, blendSelection,
                    job, tasks, nextId, delivered, faults, applies, staleWrite,
                    inputValue, collections, wire, reader, extractor >>
    /\ Memoize

(***************************************************************************)
(* The library: saved components and collections.  Every handler writes    *)
(* localStorage and then sets the React state to what it reads back, so    *)
(* that the state and the store hold the same list after each handler.     *)
(***************************************************************************)
\* array.includes(x)
Includes(array, x) == \E n \in DOMAIN array : array[n] = x

\* array.filter(id => id !== x)
Without(array, x) == SelectSeq(array, LAMBDA id : id # x)

\* list.findIndex(c => c.id === id), 1-based, 0 when absent
IndexOfId(list, id) ==
    LET hits == { n \in DOMAIN list : list[n].id = id }
    IN  IF hits = { } THEN 0 ELSE CHOOSE n \in hits : \A h \in hits : n <= h

\* saveComponent / saveCollection: replace the entry of the same id, or push
saveComponent(components, component) ==
    IF IndexOfId(components, component.id) > 0
    THEN [components EXCEPT ![IndexOfId(components, component.id)] = component]
    ELSE Append(components, component)

saveCollection(list, collection) ==
    IF IndexOfId(list, collection.id) > 0
    THEN [list EXCEPT ![IndexOfId(list, collection.id)] = collection]
    ELSE Append(list, collection)

\* savedComponents.find(c => c.artifactId === a && c.sessionId === s), 0 when absent
ExistingComponent(artifactId, sessionId) ==
    LET hits == { n \in DOMAIN savedComponents :
                     /\ savedComponents[n].artifactId = artifactId
                     /\ savedComponents[n].sessionId = sessionId }
    IN  IF hits = { } THEN 0 ELSE CHOOSE n \in hits : \A h \in hits : n <= h

\* a test that lets every artifact through
IsSaveableAlways(artifact) == TRUE

\* the status test of the two save handlers
IsSaveable(artifact) == artifact.status = "complete"

\* the Save button of a card
handleSaveToLibrary(artifactId, sessionId) ==
    LET sessionIndex == FindSessionIndex(sessions, sessionId)
    IN  /\ sessionIndex >= 0
        /\ LET session == sessions[sessionIndex + 1]
               artifactIndex == FindArtifactIndex(session.artifacts, artifactId)
           IN  /\ artifactIndex >= 0
               /\ LET artifact == session.artifacts[artifactIndex + 1]
                  IN  /\ IsSaveable(artifact)
                      /\ ExistingComponent(artifact.id, session.id) = 0
                      /\ Len(savedComponents) < MaxComponents
                      /\ savedComponents' = saveComponent(savedComponents,
                             [id |-> << "c", nextId >>, artifactId |-> artifact.id,
                              sessionId |-> session.id, prompt |-> session.prompt,
                              styleName |-> artifact.styleName, html |-> artifact.html,
                              collectionIds |-> << >>, isFavorite |-> FALSE])
        /\ nextId' = nextId + 1
        /\ UNCHANGED << sessions, currentSessionIndex, focusedArtifactIndex, isLoading,
                        drawerState, componentVariations, blendSelection, job, tasks,
                        delivered, faults, applies, staleWrite, selectedModelId,
                        inputValue, collections, wire, reader, extractor >>
        /\ Memoize

\* the Favorite button of a card
handleSaveAndFavorite(artifactId, sessionId) ==
    LET sessionIndex == FindSessionIndex(sessions, sessionId)
    IN  /\ sessionIndex >= 0
        /\ LET session == sessions[sessionIndex + 1]
               artifactIndex == FindArtifactIndex(session.artifacts, artifactId)
           IN  /\ artifactIndex >= 0
               /\ LET artifact == session.artifacts[artifactIndex + 1]
                      existing == ExistingComponent(artifact.id, session.id)
                  IN  /\ IsSaveable(artifact)
                      /\ IF existing > 0
                         THEN /\ savedComponents' = saveComponent(savedComponents,
                                     [savedComponents[existing] EXCEPT
                                         !.prompt = session.prompt,
                                         !.styleName = artifact.styleName,
                                         !.html = artifact.html,
                                         !.isFavorite = ~ @])
                              /\ UNCHANGED nextId
                         ELSE /\ Len(savedComponents) < MaxComponents
                              /\ savedComponents' = saveComponent(savedComponents,
                                     [id |-> << "c", nextId >>,
                                      artifactId |-> artifact.id,
                                      sessionId |-> session.id,
                                      prompt |-> session.prompt,
                                      styleName |-> artifact.styleName,
                                      html |-> artifact.html,
                                      collectionIds |-> << >>, isFavorite |-> TRUE])
                              /\ nextId' = nextId + 1
        /\ UNCHANGED << sessions, currentSessionIndex, focusedArtifactIndex, isLoading,
                        drawerState, componentVariations, blendSelection, job, tasks,
                        delivered, faults, applies, staleWrite, selectedModelId,
                        inputValue, collections, wire, reader, extractor >>
        /\ Memoize

\* the Favorite button of the focused view, on a saved component
handleToggleFavorite(componentId) ==
    LET n == IndexOfId(savedComponents, componentId)
    IN  /\ n > 0
        /\ savedComponents' = saveComponent(savedComponents,
               [savedComponents[n] EXCEPT !.isFavorite = ~ @])
        /\ UNCHANGED << sessions, currentSessionIndex, focusedArtifactIndex, isLoading,
                        drawerState, componentVariations, blendSelection, job, tasks,
                        nextId, delivered, faults, applies, staleWrite, selectedModelId,
                        inputValue, collections, wire, reader, extractor >>
        /\ Memoize

\* onSave of the collection editor, for a new collection
handleCreateCollection ==
    /\ Len(collections) < MaxCollections
    /\ nextId <= MaxIds
    /\ collections' = saveCollection(collections,
           [id |-> << "k", nextId >>, componentIds |-> << >>])
    /\ nextId' = nextId + 1
    /\ UNCHANGED << sessions, currentSessionIndex, focusedArtifactIndex, isLoading,
                    drawerState, savedComponents, componentVariations, blendSelection,
                    job, tasks, delivered, faults, applies, staleWrite,
                    selectedModelId, inputValue, wire, reader, extractor >>
    /\ Memoize

\* the forEach of handleUpdateCollections over the stored collections
UpdatedCollection(collection, componentId, collectionIds) ==
    LET hasComponent == Includes(collection.componentIds, componentId)
        shouldHaveComponent == Includes(collectionIds, collection.id)
    IN  IF shouldHaveComponent /\ ~hasComponent
        THEN [collection EXCEPT !.componentIds = Append(@, componentId)]
        ELSE IF ~shouldHaveComponent /\ hasComponent
             THEN [collection EXCEPT !.componentIds = Without(@, componentId)]
             ELSE collection

\* onCollectionsChange of the collection manager
handleUpdateCollections(componentId, collectionIds) ==
    LET n == IndexOfId(savedComponents, componentId)
    IN  /\ n > 0
        /\ savedComponents' = saveComponent(savedComponents,
               [savedComponents[n] EXCEPT !.collectionIds = collectionIds])
        /\ collections' = [m \in DOMAIN collections |->
               UpdatedCollection(collections[m], componentId, collectionIds)]
        /\ UNCHANGED << sessions, currentSessionIndex, focusedArtifactIndex, isLoading,
                        drawerState, componentVariations, blendSelection, job, tasks,
                        nextId, delivered, faults, applies, staleWrite, selectedModelId,
                        inputValue, wire, reader, extractor >>
        /\ Memoize

\* newSelected of handleToggleCollection (CollectionManager): the ids of the
\* collections that contain the component, with collectionId toggled
NewSelected(componentId, collectionId) ==
    LET containing == SelectSeq(collections,
                         LAMBDA c : Includes(c.componentIds, componentId))
        selectedCollections == [m \in DOMAIN containing |-> containing[m].id]
    IN  IF Includes(selectedCollections, collectionId)
        THEN Without(selectedCollections, collectionId)
        ELSE Append(selectedCollections, collectionId)

\* the componentIds of the editingCollection object that onSave spreads into
\* its argument: those the collection had when the editor was opened, which
\* is any moment from its creation (the empty list) to the present
HeldComponentIds(collection) == { << >>, collection.componentIds }

\* onCollectionUpdate: the collection is stored as it is given
handleUpdateCollection(collection) ==
    /\ collections' = saveCollection(collections, collection)
    /\ UNCHANGED << sessions, currentSessionIndex, focusedArtifactIndex, isLoading,
                    drawerState, savedComponents, componentVariations, blendSelection,
                    job, tasks, nextId, delivered, faults, applies, staleWrite,
                    selectedModelId, inputValue, wire, reader, extractor >>
    /\ Memoize

\* deleteCollection, on the components: the id is filtered out of every one
deleteCollection(components, collectionId) ==
    [n \in DOMAIN components |->
        [components[n] EXCEPT !.collectionIds = Without(@, collectionId)]]

\* the delete button of a collection of the library sidebar
handleDeleteCollection(collectionId) ==
    /\ IndexOfId(collections, collectionId) > 0
    /\ collections' = SelectSeq(collections, LAMBDA c : c.id # collectionId)
    /\ savedComponents' = deleteCollection(savedComponents, collectionId)
    /\ UNCHANGED << sessions, currentSessionIndex, focusedArtifactIndex, isLoading,
                    drawerState, componentVariations, blendSelection, job, tasks,
                    nextId, delivered, faults, applies, staleWrite, selectedModelId,
                    inputValue, wire, reader, extractor >>
    /\ Memoize

(***************************************************************************)
(* The stream consumer: streamGenerateContent and streamVariations of      *)
(* utils.ts, which differ in the request only.  The bytes of the channel   *)
(* are tokens: the prefix of a frame line is two tokens, a payload is      *)
(* three or two, so that a chunk can end inside the prefix or inside the   *)
(* payload.                                                                *)
(***************************************************************************)
\* 'data: '
Prefix == << "da", "ta: " >>

\* '[DONE]'
DonePayload == << "[DO", "NE]" >>

\* JSON.stringify({ text })
TextPayload(text) == IF text = "" THEN << "{text:", "}" >> ELSE << "{text:", text, "}" >>

\* JSON.stringify({ error })
ErrorPayload(m) == << "{error:", m, "}" >>

\* `data: ${payload}\n\n`
Frame(payload) == Prefix \o payload \o << "\n", "\n" >>

\* a line that is no frame, as an html page served in place of the stream
JunkLine == << "<html>", "\n" >>

\* payloads that are not what the server writes: text that is not JSON, text
\* that is not JSON and holds the words API error, and the empty object
JunkPayload == << "oops" >>

ApiErrorTextPayload == << "API error", " 502" >>

EmptyObjectPayload == << "{", "}" >>

\* what the channel can carry, frame by frame
FrameKinds ==
    { Frame(TextPayload("x")), Frame(TextPayload("y")), Frame(TextPayload("")),
      Frame(ErrorPayload("m")), Frame(DonePayload), JunkLine }

RECURSIVE StreamsOf(_)
StreamsOf(n) ==
    IF n = 0 THEN { << >> }
    ELSE StreamsOf(n - 1) \cup { st \o f : st \in StreamsOf(n - 1), f \in FrameKinds }

\* the streams the consumer is run on
Streams == StreamsOf(MaxFrames)

\* frames with payloads of every kind, those the server never writes included
AnyFrameKinds ==
    { Frame(TextPayload("x")), Frame(TextPayload("")), Frame(EmptyObjectPayload),
      Frame(JunkPayload), Frame(ApiErrorTextPayload), Frame(ErrorPayload("m")),
      Frame(DonePayload) }

RECURSIVE AnyStreamsOf(_)
AnyStreamsOf(n) ==
    IF n = 0 THEN { << >> }
    ELSE AnyStreamsOf(n - 1)
            \cup { st \o f : st \in AnyStreamsOf(n - 1), f \in AnyFrameKinds }

\* buffer.split('\n'): the pieces between newlines, the last one being what
\* follows the last newline
RECURSIVE SplitLines(_, _, _)
SplitLines(buf, line, lines) ==
    IF buf = << >> THEN Append(lines, line)
    ELSE IF Head(buf) = "\n" THEN SplitLines(Tail(buf), << >>, Append(lines, line))
    ELSE SplitLines(Tail(buf), Append(line, Head(buf)), lines)

\* JSON.parse(data), as far as the fields text and error go
JsonParse(data) ==
    IF Len(data) = 3 /\ data[1] = "{text:" /\ data[3] = "}"
    THEN [ok |-> TRUE, text |-> data[2], error |-> ""]
    ELSE IF data = << "{text:", "}" >> \/ data = EmptyObjectPayload
    THEN [ok |-> TRUE, text |-> "", error |-> ""]
    ELSE IF Len(data) = 3 /\ data[1] = "{error:" /\ data[3] = "}"
    THEN [ok |-> TRUE, text |-> "", error |-> data[2]]
    ELSE [ok |-> FALSE, text |-> "", error |-> ""]

\* e.message of the SyntaxError thrown by JSON.parse(data).  The text is the
\* engine's: some engines quote the source text in it (Unexpected token ...,
\* "<the text>" is not valid JSON), others give the position only.
SyntaxErrorMessage(data, quotes) ==
    IF quotes THEN << "Unexpected token, " >> \o data \o << " is not valid JSON" >>
    ELSE << "Unexpected token in JSON at position" >>

\* e.message.includes('API error')
MentionsApiError(message) ==
    \E i \in DOMAIN message : message[i] \in { "API error", "API error: " }

\* a loop body whose catch skips the error of an error frame as it skips
\* invalid JSON
ProcessLineSkippingErrors(r, line) ==
    IF r.outcome # "reading" \/ ~StartsWith(line, Prefix) THEN r
    ELSE LET data == SubstringFrom(line, Len(Prefix))
             parsed == JsonParse(data)
         IN  IF data = DonePayload
             THEN [r EXCEPT !.outcome = "returned"]
             ELSE IF parsed.ok /\ parsed.text # ""
             THEN [r EXCEPT !.yielded = Append(r.yielded, parsed.text)]
             ELSE r

\* a loop body that takes the terminal frame for one more line to skip
ProcessLineSkippingDone(r, line) ==
    IF r.outcome # "reading" \/ ~StartsWith(line, Prefix) THEN r
    ELSE LET parsed == JsonParse(SubstringFrom(line, Len(Prefix)))
             yielded == IF parsed.ok /\ parsed.text # ""
                        THEN Append(r.yielded, parsed.text) ELSE r.yielded
         IN  IF parsed.ok /\ parsed.error # ""
             THEN [r EXCEPT !.yielded = yielded, !.outcome = "thrown",
                            !.message = << "API error: ", parsed.error >>]
             ELSE [r EXCEPT !.yielded = yielded]

\* body of for (const line of lines), for one line
ProcessLine(r, line) ==
    IF r.outcome # "reading" \/ ~StartsWith(line, Prefix) THEN r
    ELSE LET data == SubstringFrom(line, Len(Prefix))
             parsed == JsonParse(data)
             yielded == IF parsed.ok /\ parsed.text # ""
                        THEN Append(r.yielded, parsed.text) ELSE r.yielded
         IN  IF data = DonePayload
             THEN [r EXCEPT !.outcome = "returned"]
             ELSE IF parsed.ok /\ parsed.error # ""
             THEN [r EXCEPT !.yielded = yielded, !.outcome = "thrown",
                            !.message = << "API error: ", parsed.error >>]
             ELSE IF ~parsed.ok /\ MentionsApiError(SyntaxErrorMessage(data, r.quotes))
             THEN [r EXCEPT !.outcome = "thrown",
                            !.message = SyntaxErrorMessage(data, r.quotes)]
             ELSE [r EXCEPT !.yielded = yielded]

RECURSIVE ProcessLines(_, _)
ProcessLines(r, lines) ==
    IF lines = << >> THEN r
    ELSE ProcessLines(ProcessLine(r, Head(lines)), Tail(lines))

\* a consumer that forgets the partial line at the end of a chunk
ReadChunkWithoutBuffer(r, chunk) ==
    LET pieces == SplitLines(chunk, << >>, << >>)
    IN  ProcessLines([r EXCEPT !.hasReceivedData = TRUE, !.buffer = << >>],
                     SubSeq(pieces, 1, Len(pieces) - 1))

\* body of the while loop for one chunk returned by reader.read()
ReadChunk(r, chunk) ==
    LET pieces == SplitLines(r.buffer \o chunk, << >>, << >>)
    IN  ProcessLines([r EXCEPT !.hasReceivedData = TRUE,
                               !.buffer = pieces[Len(pieces)]],
                     SubSeq(pieces, 1, Len(pieces) - 1))

\* the consumer after response.body.getReader(), on a channel carrying stream
FreshReader(stream) ==
    [stream |-> stream, rest |-> stream, buffer |-> << >>,
     hasReceivedData |-> FALSE, yielded |-> << >>, outcome |-> "reading",
     message |-> << >>, cut |-> FALSE, partial |-> FALSE, expired |-> FALSE,
     quotes |-> FALSE]

\* the test on Date.now() - startTime at the top of the loop, which the consumer
\* reaches when it has gone through the lines of a chunk
LoopTop(r) ==
    IF r.outcome = "reading" /\ r.expired
    THEN [r EXCEPT !.outcome = "thrown", !.message = << "Request timeout" >>]
    ELSE r

\* reader.read() returns the next n tokens of the channel
ReaderRead(n) ==
    /\ reader.outcome = "reading"
    /\ n \in 1 .. Len(reader.rest)
    /\ LET r == LoopTop(ReadChunk([reader EXCEPT !.rest = SubSeq(reader.rest, n + 1, Len(reader.rest))],
                                  SubSeq(reader.rest, 1, n)))
       \* history: some chunk has ended inside a line
       IN  reader' = [r EXCEPT !.partial = (reader.partial \/ r.buffer # << >>)]
    /\ UNCHANGED << appVars, wire, extractor >>

\* an end of channel without the test on hasReceivedData
AfterDoneWithoutTest(r) == [r EXCEPT !.outcome = "ended"]

\* what the consumer does when reader.read() returns done
AfterDone(r) ==
    IF r.hasReceivedData
    THEN [r EXCEPT !.outcome = "ended"]
    ELSE [r EXCEPT !.outcome = "thrown",
                   !.message = << "Stream error: ", "No data received from API" >>]

\* reader.read() returns done: the channel has ended, after the whole stream
\* or, when the server went away, before
ReaderDone ==
    /\ reader.outcome = "reading"
    /\ reader' = AfterDone([reader EXCEPT !.cut = (reader.rest # << >>)])
    /\ UNCHANGED << appVars, wire, extractor >>

\* the clock passes startTime + timeout while the consumer waits in
\* reader.read()
ClockExpires ==
    /\ reader.outcome = "reading"
    /\ ~reader.expired
    /\ reader' = [reader EXCEPT !.expired = TRUE]
    /\ UNCHANGED << appVars, wire, extractor >>

(***************************************************************************)
(* The extractor of records: parseJsonStream.  A text is a sequence of     *)
(* characters; the characters that matter are the braces, the double       *)
(* quote "Q", a member key with its colon "k:", a number "1" and any       *)
(* other character "t".                                                    *)
(***************************************************************************)

RecordSimple == << "{", "k:", "1", "}" >>

\* a record whose string value holds a pair of braces, as html does
RecordHtml == << "{", "k:", "Q", "t", "{", "}", "t", "Q", "}" >>

RecordNested == << "{", "k:", "{", "k:", "1", "}", "}" >>

\* a span with balanced braces that is no JSON
SpanMalformed == << "{", "t", "}" >>

\* a span that is no JSON around a record
SpanAroundRecord == << "{", "t" >> \o RecordSimple \o << "}" >>

\* an opening brace that nothing closes
SpanUnclosed == << "{", "t" >>

\* records whose string value holds a single brace
RecordWithClosingBrace == << "{", "k:", "Q", "}", "Q", "}" >>

RecordWithOpeningBrace == << "{", "k:", "Q", "{", "Q", "}" >>

Pieces ==
    { RecordSimple, RecordHtml, RecordNested, SpanMalformed, SpanAroundRecord,
      SpanUnclosed, RecordWithClosingBrace, RecordWithOpeningBrace,
      << "t" >>, << "}" >> }

\* the texts a response stream can carry: up to n pieces
RECURSIVE PieceListsOf(_)
PieceListsOf(n) ==
    IF n = 0 THEN { << >> }
    ELSE PieceListsOf(n - 1)
         \cup { Append(ps, p) : ps \in PieceListsOf(n - 1), p \in Pieces }

PieceLists == PieceListsOf(MaxPieces)

RECURSIVE Flatten(_)
Flatten(ps) == IF ps = << >> THEN << >> ELSE Head(ps) \o Flatten(Tail(ps))

\* buffer.indexOf(ch, from), counted from 1, with 0 for not found
RECURSIVE IndexOf(_, _, _)
IndexOf(buf, ch, from) ==
    IF from > Len(buf) THEN 0
    ELSE IF buf[from] = ch THEN from
    ELSE IndexOf(buf, ch, from + 1)

\* a counter that does not nest: every closing brace closes the span
BraceCountFlat(braceCount, ch) == IF ch = "}" THEN 0 ELSE 1

\* braceCount after the character ch
BraceCount(braceCount, ch) ==
    IF ch = "{" THEN braceCount + 1
    ELSE IF ch = "}" THEN braceCount - 1
    ELSE braceCount

\* the for loop over i: the index where braceCount returns to 0, or 0
RECURSIVE FindEnd(_, _, _, _)
FindEnd(buf, i, braceCount, start) ==
    IF i > Len(buf) THEN 0
    ELSE IF BraceCount(braceCount, buf[i]) = 0 /\ i > start THEN i
    ELSE FindEnd(buf, i + 1, BraceCount(braceCount, buf[i]), start)

\* the index after the JSON value that starts at s[i], or 0 when there is none
RECURSIVE ParseValue(_, _)
ParseValue(s, i) ==
    IF i > Len(s) THEN 0
    ELSE IF s[i] = "1" THEN i + 1
    ELSE IF s[i] = "Q"
    THEN IF IndexOf(s, "Q", i + 1) = 0 THEN 0 ELSE IndexOf(s, "Q", i + 1) + 1
    ELSE IF s[i] = "{" /\ i + 1 <= Len(s) /\ s[i + 1] = "}" THEN i + 2
    ELSE IF s[i] = "{" /\ i + 1 <= Len(s) /\ s[i + 1] = "k:"
    THEN LET n == ParseValue(s, i + 2)
         IN  IF n # 0 /\ n <= Len(s) /\ s[n] = "}" THEN n + 1 ELSE 0
    ELSE 0

\* JSON.parse(jsonString): it throws unless the whole string is one value
JsonParseRecord(jsonString) ==
    [ok |-> ParseValue(jsonString, 1) = Len(jsonString) + 1, value |-> jsonString]

\* a catch block that gives up the scan
AfterParseFailureAborting(buf, start) == 0

\* the catch block: the start of the next candidate
AfterParseFailure(buf, start) == IndexOf(buf, "{", start + 1)

\* the while (start !== -1) loop
RECURSIVE ScanBuffer(_, _, _, _)
ScanBuffer(buf, start, yielded, failed) ==
    IF start = 0 THEN [buffer |-> buf, yielded |-> yielded, failed |-> failed]
    ELSE LET end == FindEnd(buf, start, 0, start)
         IN  IF end = 0
             THEN [buffer |-> buf, yielded |-> yielded, failed |-> failed]
             ELSE IF JsonParseRecord(SubSeq(buf, start, end)).ok
             THEN ScanBuffer(SubSeq(buf, end + 1, Len(buf)),
                             IndexOf(SubSeq(buf, end + 1, Len(buf)), "{", 1),
                             Append(yielded, JsonParseRecord(SubSeq(buf, start, end)).value),
                             failed)
             ELSE ScanBuffer(buf, AfterParseFailure(buf, start), yielded, TRUE)

\* an extractor that scans each increment on its own
ExtractChunkWithoutBuffer(x, text) ==
    LET scan == ScanBuffer(text, IndexOf(text, "{", 1), x.yielded, x.failed)
    IN  [x EXCEPT !.buffer = scan.buffer, !.yielded = scan.yielded, !.failed = scan.failed]

\* body of for await (const chunk of responseStream)
ExtractChunk(x, text) ==
    LET scan == ScanBuffer(x.buffer \o text, IndexOf(x.buffer \o text, "{", 1),
                           x.yielded, x.failed)
    IN  [x EXCEPT !.buffer = scan.buffer, !.yielded = scan.yielded, !.failed = scan.failed]

\* parseJsonStream called on a response stream that carries the pieces ps
FreshExtractor(ps) ==
    [state |-> "feeding", pieces |-> ps, rest |-> Flatten(ps), buffer |-> << >>,
     yielded |-> << >>, failed |-> FALSE, split |-> FALSE, deep |-> FALSE]

\* braces opened and not closed in buf
RECURSIVE OpenBraces(_)
OpenBraces(buf) ==
    IF buf = << >> THEN 0
    ELSE OpenBraces(SubSeq(buf, 1, Len(buf) - 1))
         + (IF buf[Len(buf)] = "{" THEN 1 ELSE IF buf[Len(buf)] = "}" THEN -1 ELSE 0)

\* the response stream yields the next n characters as one increment
ExtractorFeed(n) ==
    /\ extractor.state = "feeding"
    /\ n \in 1 .. Len(extractor.rest)
    /\ LET x == ExtractChunk([extractor EXCEPT !.rest = SubSeq(extractor.rest, n + 1,
                                                                Len(extractor.rest))],
                             SubSeq(extractor.rest, 1, n))
       \* history: an increment has ended inside a candidate, and inside its
       \* inner braces
       IN  extractor' = [x EXCEPT !.split = (extractor.split \/ IndexOf(x.buffer, "{", 1) # 0),
                                  !.deep = (extractor.deep \/ OpenBraces(x.buffer) >= 2)]
    /\ UNCHANGED << appVars, wire, reader >>

\* the response stream ends
ExtractorEnd ==
    /\ extractor.state = "feeding"
    /\ extractor' = [extractor EXCEPT !.state = "ended"]
    /\ UNCHANGED << appVars, wire, reader >>

(***************************************************************************)
(* The server: the handler of a generation request.                        *)
(***************************************************************************)

\* the three handlers: the serverless function, and the development server's
\* /api/generate and /api/variations
Endpoints == {"vercel", "generate", "variations"}

Providers == {"gemini", "claude", "openai"}

\* what a provider's stream delivers: an event with a text, which may be
\* empty, or an event of another kind
ProviderEvents ==
    { [kind |-> "text", text |-> t] : t \in {"x", "y", ""} }
        \cup { [kind |-> "other", text |-> ""] }

\* the classes of keyword that parseProviderError looks for in a message, in
\* the order of its tests
Keywords == << "key", "rate", "notfound", "toolong", "billing", "timeout" >>

\* what a provider's call throws: the classes of keyword its message holds,
\* and its fields status and statusCode, 0 when it has none
ProviderFaults ==
    [classes : SUBSET {Keywords[i] : i \in 1 .. 6},
     status : {0, 302, 401, 404, 429, 503},
     statusCode : {0, 404, 502}]

\* the faults that the handler is run against
ServerFaults ==
    { f \in ProviderFaults : Cardinality(f.classes) <= 1 /\ f.statusCode = 0 }

\* the test each branch makes before it writes a data frame
Surfaced(provider, ev) ==
    CASE provider = "gemini" -> ev.kind = "text"
      [] provider = "claude" -> ev.kind = "text"
      [] provider = "openai" -> ev.kind = "text" /\ ev.text # ""

\* error?.status || error?.statusCode || 500
StatusCodeOf(fault) ==
    IF fault.status # 0 THEN fault.status
    ELSE IF fault.statusCode # 0 THEN fault.statusCode
    ELSE 500

\* a classifier that tests for a timeout before everything else
parseProviderErrorTimeoutFirst(fault, provider) ==
    IF "timeout" \in fault.classes
    THEN [status |-> 504, message |-> << "Request timed out. The ", provider, " API is slow or unreachable." >>]
    ELSE IF "key" \in fault.classes \/ StatusCodeOf(fault) = 401
    THEN [status |-> 401, message |-> << "Invalid or missing ", provider, " API key." >>]
    ELSE IF "rate" \in fault.classes \/ StatusCodeOf(fault) = 429
    THEN [status |-> 429, message |-> << provider, " rate limit exceeded." >>]
    ELSE IF "notfound" \in fault.classes \/ StatusCodeOf(fault) = 404
    THEN [status |-> 404, message |-> << "Model not found." >>]
    ELSE IF "toolong" \in fault.classes
    THEN [status |-> 400, message |-> << "Request too large." >>]
    ELSE IF "billing" \in fault.classes
    THEN [status |-> 402, message |-> << provider, " billing issue." >>]
    ELSE [status |-> IF StatusCodeOf(fault) >= 400 THEN StatusCodeOf(fault) ELSE 500,
          message |-> << provider, " error: ", "errorMessage" >>]

\* a classifier whose last line always answers 500
parseProviderErrorAlways500(fault, provider) ==
    IF "key" \in fault.classes \/ StatusCodeOf(fault) = 401
    THEN [status |-> 401, message |-> << "Invalid or missing ", provider, " API key." >>]
    ELSE IF "rate" \in fault.classes \/ StatusCodeOf(fault) = 429
    THEN [status |-> 429, message |-> << provider, " rate limit exceeded." >>]
    ELSE IF "notfound" \in fault.classes \/ StatusCodeOf(fault) = 404
    THEN [status |-> 404, message |-> << "Model not found." >>]
    ELSE IF "toolong" \in fault.classes
    THEN [status |-> 400, message |-> << "Request too large." >>]
    ELSE IF "billing" \in fault.classes
    THEN [status |-> 402, message |-> << provider, " billing issue." >>]
    ELSE IF "timeout" \in fault.classes
    THEN [status |-> 504, message |-> << "Request timed out. The ", provider, " API is slow or unreachable." >>]
    ELSE [status |-> 500, message |-> << provider, " error: ", "errorMessage" >>]

\* a classifier that keeps count of the faults it has seen
parseProviderErrorCounting(fault, provider) ==
    IF Len(wire.calls) >= 2
    THEN [status |-> 429, message |-> << provider, " rate limit exceeded." >>]
    ELSE [status |-> IF StatusCodeOf(fault) >= 400 THEN StatusCodeOf(fault) ELSE 500,
          message |-> << provider, " error: ", "errorMessage" >>]

parseProviderError(fault, provider) ==
    IF "key" \in fault.classes \/ StatusCodeOf(fault) = 401
    THEN [status |-> 401, message |-> << "Invalid or missing ", provider, " API key." >>]
    ELSE IF "rate" \in fault.classes \/ StatusCodeOf(fault) = 429
    THEN [status |-> 429, message |-> << provider, " rate limit exceeded." >>]
    ELSE IF "notfound" \in fault.classes \/ StatusCodeOf(fault) = 404
    THEN [status |-> 404, message |-> << "Model not found." >>]
    ELSE IF "toolong" \in fault.classes
    THEN [status |-> 400, message |-> << "Request too large." >>]
    ELSE IF "billing" \in fault.classes
    THEN [status |-> 402, message |-> << provider, " billing issue." >>]
    ELSE IF "timeout" \in fault.classes
    THEN [status |-> 504, message |-> << "Request timed out. The ", provider, " API is slow or unreachable." >>]
    ELSE [status |-> IF StatusCodeOf(fault) >= 400 THEN StatusCodeOf(fault) ELSE 500,
          message |-> << provider, " error: ", "errorMessage" >>]

\* a dev-server classifier without the rule for billing faults
parseProviderErrorDevServerNoBilling(fault, provider) ==
    IF "key" \in fault.classes \/ StatusCodeOf(fault) = 401
    THEN [status |-> 401, message |-> << "Invalid or missing ", provider, " API key." >>]
    ELSE IF "rate" \in fault.classes \/ StatusCodeOf(fault) = 429
    THEN [status |-> 429, message |-> << provider, " rate limit exceeded." >>]
    ELSE IF "notfound" \in fault.classes \/ StatusCodeOf(fault) = 404
    THEN [status |-> 404, message |-> << "Model not found. The model ID ", "unknown" >>]
    ELSE IF "toolong" \in fault.classes
    THEN [status |-> 400, message |-> << "Request too large." >>]
    ELSE IF "timeout" \in fault.classes
    THEN [status |-> 504, message |-> << "Request timed out. The ", provider, " API is slow or unreachable." >>]
    ELSE [status |-> IF StatusCodeOf(fault) >= 400 THEN StatusCodeOf(fault) ELSE 500,
          message |-> << provider, " error: ", "errorMessage" >>]

\* the copy of parseProviderError in the dev server: the same tests in the
\* same order, with messages of its own
parseProviderErrorDevServer(fault, provider) ==
    IF "key" \in fault.classes \/ StatusCodeOf(fault) = 401
    THEN [status |-> 401,
          message |-> << "Invalid or missing ", provider, " API key.", " .env.local" >>]
    ELSE IF "rate" \in fault.classes \/ StatusCodeOf(fault) = 429
    THEN [status |-> 429, message |-> << provider, " rate limit exceeded." >>]
    ELSE IF "notfound" \in fault.classes \/ StatusCodeOf(fault) = 404
    THEN [status |-> 404, message |-> << "Model not found. The model ID ", "unknown" >>]
    ELSE IF "toolong" \in fault.classes
    THEN [status |-> 400, message |-> << "Request too large." >>]
    ELSE IF "billing" \in fault.classes
    THEN [status |-> 402,
          message |-> << provider, " billing issue.", " Check your account at ", provider >>]
    ELSE IF "timeout" \in fault.classes
    THEN [status |-> 504, message |-> << "Request timed out. The ", provider, " API is slow or unreachable." >>]
    ELSE [status |-> IF StatusCodeOf(fault) >= 400 THEN StatusCodeOf(fault) ELSE 500,
          message |-> << provider, " error: ", "errorMessage" >>]

\* the same fault comes to the catch block of the dev server's handler
ClassifyDevServer ==
    /\ wire.pc = "classify"
    /\ Len(wire.devCalls) < MaxCalls
    /\ wire' = [wire EXCEPT !.devCalls =
                    Append(wire.devCalls,
                           parseProviderErrorDevServer(wire.fault, wire.provider))]
    /\ UNCHANGED << appVars, reader, extractor >>

\* the same fault comes to the catch block of the handler once more
Classify ==
    /\ wire.pc = "classify"
    /\ Len(wire.calls) < MaxCalls
    /\ wire' = [wire EXCEPT !.calls = Append(wire.calls,
                                             parseProviderError(wire.fault, wire.provider))]
    /\ UNCHANGED << appVars, reader, extractor >>

\* res.status(status).json(body), while the headers have not been sent
Json(w, status, kind, text) ==
    [w EXCEPT !.pc = "done", !.headers = "sent", !.status = status,
              !.body = [kind |-> kind, text |-> text], !.end = "closed"]

\* res.write(frame)
Write(w, frame) ==
    [w EXCEPT !.headers = "sent", !.status = 200, !.out = w.out \o frame]

\* a handler that looks for the credential before it looks at the model
HandleRequestKeyFirst(endpoint, method, hasPrompt, knownModel, provider, hasKey, stream) ==
    /\ wire.pc = "idle"
    /\ endpoint # "vercel" => method = "POST"
    /\ endpoint = "variations" => stream
    /\ LET w == [wire EXCEPT !.endpoint = endpoint, !.provider = provider, !.stream = stream,
                             !.request = [method |-> method, hasPrompt |-> hasPrompt,
                                          knownModel |-> knownModel, hasKey |-> hasKey]]
       IN  wire' =
             IF endpoint = "vercel" /\ method # "POST" THEN Json(w, 405, "error", << "Method not allowed" >>)
             ELSE IF ~hasPrompt THEN Json(w, 400, "error", << "Prompt is required" >>)
             ELSE IF ~hasKey THEN Json(w, 500, "error", << "API_KEY is not configured" >>)
             ELSE IF ~knownModel THEN Json(w, 400, "error", << "Unknown model" >>)
             ELSE [w EXCEPT !.pc = "calling",
                            !.headers = IF stream THEN "set" ELSE "none"]
    /\ UNCHANGED << appVars, reader, extractor >>

\* the handler from its entry to its first await
HandleRequest(endpoint, method, hasPrompt, knownModel, provider, hasKey, stream) ==
    /\ wire.pc = "idle"
    /\ endpoint # "vercel" => method = "POST"
    /\ endpoint = "variations" => stream
    /\ LET w == [wire EXCEPT !.endpoint = endpoint, !.provider = provider, !.stream = stream,
                             !.request = [method |-> method, hasPrompt |-> hasPrompt,
                                          knownModel |-> knownModel, hasKey |-> hasKey]]
       IN  wire' =
             IF endpoint = "vercel" /\ method # "POST" THEN Json(w, 405, "error", << "Method not allowed" >>)
             ELSE IF ~hasPrompt THEN Json(w, 400, "error", << "Prompt is required" >>)
             ELSE IF ~knownModel THEN Json(w, 400, "error", << "Unknown model" >>)
             ELSE IF ~hasKey THEN Json(w, 500, "error", << "API_KEY is not configured" >>)
             ELSE [w EXCEPT !.pc = "calling",
                            !.headers = IF stream THEN "set" ELSE "none"]
    /\ UNCHANGED << appVars, reader, extractor >>

\* one turn of for await over the provider's stream
ProviderEvent(ev) ==
    /\ wire.pc = "calling"
    /\ wire.stream
    /\ Len(wire.events) < MaxEvents
    /\ LET w == [wire EXCEPT !.events = Append(wire.events, ev)]
       IN  wire' = IF Surfaced(wire.provider, ev)
                   THEN Write(w, Frame(TextPayload(ev.text)))
                   ELSE w
    /\ UNCHANGED << appVars, reader, extractor >>

\* a handler that closes the response without the terminal frame
ProviderEndsWithoutTerminal ==
    /\ wire.pc = "calling"
    /\ wire.stream
    /\ wire' = [wire EXCEPT !.pc = "done", !.headers = "sent", !.status = 200,
                            !.end = "closed"]
    /\ UNCHANGED << appVars, reader, extractor >>

\* the provider's stream is exhausted: res.write('data: [DONE]\n\n'), res.end()
ProviderEnds ==
    /\ wire.pc = "calling"
    /\ wire.stream
    /\ wire' = [Write(wire, Frame(DonePayload)) EXCEPT !.pc = "done", !.end = "closed"]
    /\ UNCHANGED << appVars, reader, extractor >>

\* the provider's call without stream returns
ProviderResponds(text) ==
    /\ wire.pc = "calling"
    /\ ~wire.stream
    /\ wire' = Json(wire, 200, "text", << text >>)
    /\ UNCHANGED << appVars, reader, extractor >>

\* the provider's call, or its stream, throws: the catch block.  Once a frame
\* has been written res.json throws in its turn, nothing handles that, and
\* the response is left open or the connection is torn down with the process.
ProviderFails(fault, end) ==
    /\ wire.pc = "calling"
    /\ IF wire.headers = "sent"
       THEN /\ end \in {"hung", "aborted"}
            /\ wire' = [wire EXCEPT !.pc = "done", !.fault = fault, !.end = end]
       ELSE /\ end = "closed"
            /\ wire' = Json([wire EXCEPT !.fault = fault],
                            parseProviderError(fault, wire.provider).status, "error",
                            parseProviderError(fault, wire.provider).message)
    /\ UNCHANGED << appVars, reader, extractor >>

(***************************************************************************)
(* The specifications.                                                     *)
(***************************************************************************)
\* Start: the generation workflow of handleSendMessage and its five tasks,
\* over streams of plain text
Next ==
    \/ \E p \in Prompts : handleSendMessage(p)
    \/ NamingReturns(StyleArray)
    \/ \E m \in Faults : NamingThrows(m)
    \/ \E k \in Slots, text \in PlainChunks : TaskIncrement(k, text)
    \/ \E k \in Slots : TaskEnd(k)
    \/ \E k \in Slots, m \in Faults : TaskThrow(k, m)

Spec == Init /\ [][Next]_vars

\* Start, over streams that carry whitespace and code fences as well
NextText ==
    \/ \E p \in Prompts : handleSendMessage(p)
    \/ NamingReturns(StyleArray)
    \/ \E m \in Faults : NamingThrows(m)
    \/ \E k \in Slots, text \in Chunks :
          delivered < MaxSharedIncrements /\ TaskIncrement(k, text)
    \/ \E k \in Slots : TaskEnd(k)
    \/ \E k \in Slots, m \in Faults : TaskThrow(k, m)

SpecText == Init /\ [][NextText]_vars

\* The three workflows over plain streams, with navigation and the library
NextFlows ==
    \/ \E p \in Prompts : handleSendMessage(p)
    \/ NamingReturns(NoStyleArray)
    \/ \E m \in Faults : NamingThrows(m)
    \/ \E k \in Slots, text \in PlainChunks :
          delivered < MaxSharedIncrements /\ TaskIncrement(k, text)
    \/ \E k \in Slots : TaskEnd(k)
    \/ \E k \in Slots, m \in Faults : TaskThrow(k, m)
    \/ handleMoreLikeThis
    \/ handleBlendStyles
    \/ \E s \in 0 .. nextId, i \in Slots : handleToggleBlendSelection(ArtifactId(s, i))
    \/ GridView
    \/ nextItem
    \/ prevItem
    \/ OpenLibrary
    \/ \E n \in 1 .. Len(savedComponents) : handleComponentSelect(n)

SpecFlows == Init /\ [][NextFlows]_vars

\* Explore UX: a library component, More like this, the focus and the
\* variations drawer
NextUX ==
    \/ OpenLibrary
    \/ \E n \in 1 .. Len(savedComponents) : handleComponentSelect(n)
    \/ handleMoreLikeThis
    \/ NamingReturns(NoStyleArray)
    \/ \E m \in Faults : NamingThrows(m)
    \/ \E k \in Slots, text \in PlainChunks :
          delivered < MaxSharedIncrements /\ TaskIncrement(k, text)
    \/ \E k \in Slots : TaskEnd(k)
    \/ \E k \in Slots, m \in Faults : TaskThrow(k, m)
    \/ \E a \in Slots : FocusArtifact(a)
    \/ handleGenerateVariations
    \/ \E v \in Variations : VariationYield(v)
    \/ VariationsEnd
    \/ VariationsThrow
    \/ \E n \in 1 .. MaxVariations : applyVariation(n)
    \/ CloseDrawer

SpecUX == Init /\ [][NextUX]_vars

\* The stream consumer alone, on every stream and every way of chunking it
InitStream ==
    /\ InitApp
    /\ wire = IdleWire
    /\ reader \in { FreshReader(st) : st \in Streams }
    /\ extractor = IdleExtractor

NextStream ==
    \/ \E n \in 1 .. Len(reader.rest) : ReaderRead(n)
    \/ ReaderDone
    \/ ClockExpires

SpecStream == InitStream /\ [][NextStream]_vars

\* The same with a clock that does not stop.  The channel is under no
\* obligation to deliver: reader.read() may stay pending for ever.
SpecStreamFair == SpecStream /\ WF_vars(ClockExpires)

\* The extractor on every text of up to MaxPieces pieces, cut into increments
\* in every way.
InitExtract ==
    /\ InitApp
    /\ wire = IdleWire
    /\ reader = IdleReader
    /\ extractor \in { FreshExtractor(ps) : ps \in PieceLists }

NextExtract ==
    \/ \E n \in 1 .. Len(extractor.rest) : ExtractorFeed(n)
    \/ ExtractorEnd

SpecExtract == InitExtract /\ [][NextExtract]_vars

\* The server handling one request.
InitServer ==
    /\ InitApp
    /\ wire = IdleWire
    /\ reader = IdleReader
    /\ extractor = IdleExtractor

NextServer ==
    \/ \E endpoint \in Endpoints, method \in {"POST", "GET"}, provider \in Providers,
          hasPrompt, knownModel, hasKey, stream \in BOOLEAN :
          HandleRequest(endpoint, method, hasPrompt, knownModel, provider, hasKey, stream)
    \/ \E ev \in ProviderEvents : ProviderEvent(ev)
    \/ ProviderEnds
    \/ \E text \in {"x", ""} : ProviderResponds(text)
    \/ \E fault \in ServerFaults, end \in {"closed", "hung", "aborted"} :
          ProviderFails(fault, end)

SpecServer == InitServer /\ [][NextServer]_vars

\* The classifier on every fault and provider, presented up to MaxCalls times.
InitClassify ==
    /\ InitApp
    /\ reader = IdleReader
    /\ extractor = IdleExtractor
    /\ wire \in { [IdleWire EXCEPT !.pc = "classify", !.fault = f, !.provider = p] :
                     f \in ProviderFaults, p \in Providers }

NextClassify == Classify

SpecClassify == InitClassify /\ [][NextClassify]_vars

\* The four workflows side by side, with the focus and the blend selection:
\* every handler is offered at every moment, loading or not.
NextGuard ==
    \/ \E p \in Prompts : handleSendMessage(p)
    \/ NamingReturns(NoStyleArray)
    \/ \E m \in Faults : NamingThrows(m)
    \/ \E k \in Slots, text \in PlainChunks :
          delivered < MaxSharedIncrements /\ TaskIncrement(k, text)
    \/ \E k \in Slots : TaskEnd(k)
    \/ \E k \in Slots, m \in Faults : TaskThrow(k, m)
    \/ \E a \in ClickedSlots : FocusArtifact(a)
    \/ handleMoreLikeThis
    \/ \E s \in 0 .. nextId, i \in ClickedSlots : handleToggleBlendSelection(ArtifactId(s, i))
    \/ handleBlendStyles
    \/ handleGenerateVariations
    \/ \E v \in Variations : VariationYield(v)
    \/ VariationsEnd
    \/ VariationsThrow

SpecGuard == Init /\ [][NextGuard]_vars

\* Start with a stream consumer that ends every call: a task that is reading
\* eventually ends or throws.  Nothing is assumed of the naming call.
NextLive ==
    \/ \E p \in Prompts : handleSendMessage(p)
    \/ NamingReturns(NoStyleArray)
    \/ \E m \in Faults : NamingThrows(m)
    \/ \E k \in Slots, text \in PlainChunks :
          delivered < MaxLiveIncrements /\ TaskIncrement(k, text)
    \/ \E k \in Slots : TaskEnd(k)
    \/ \E k \in Slots, m \in Faults : TaskThrow(k, m)

SpecLive ==
    /\ Init
    /\ [][NextLive]_vars
    /\ \A k \in Slots : WF_vars(TaskEnd(k) \/ \E m \in Faults : TaskThrow(k, m))

\* The stream consumer on frames with payloads of every kind, whole frames per
\* chunk or several, under an engine of either kind.
InitAnyStream ==
    /\ InitApp
    /\ wire = IdleWire
    /\ reader \in { [FreshReader(st) EXCEPT !.quotes = q] :
                       st \in AnyStreamsOf(MaxFrames), q \in BOOLEAN }
    /\ extractor = IdleExtractor

NextAnyStream ==
    \/ \E n \in 1 .. Len(reader.rest) : ReaderRead(n)
    \/ ReaderDone

SpecAnyStream == InitAnyStream /\ [][NextAnyStream]_vars

\* Start and More like this with a naming call that answers with too many
\* names, too few, or none
NextNaming ==
    \/ OpenLibrary
    \/ \E n \in 1 .. Len(savedComponents) : handleComponentSelect(n)
    \/ \E p \in Prompts : handleSendMessage(p)
    \/ handleMoreLikeThis
    \/ \E r \in NamingResponses : NamingReturns(r)
    \/ \E m \in Faults : NamingThrows(m)
    \/ \E k \in Slots, text \in PlainChunks :
          delivered < MaxLiveIncrements /\ TaskIncrement(k, text)
    \/ \E k \in Slots : TaskEnd(k)
    \/ \E k \in Slots, m \in Faults : TaskThrow(k, m)

SpecNaming == Init /\ [][NextNaming]_vars

\* The three generation workflows with the prompt input and the model
\* selector: the user types, picks a model, and starts workflows in any order.
NextModel ==
    \/ \E value \in Prompts \cup { << >> } : handleInputChange(value)
    \/ \E modelId \in Models : setSelectedModelId(modelId)
    \/ handleSendMessage(<< >>)
    \/ \E p \in SurprisePrompts : handleSendMessage(p)
    \/ NamingReturns(NoStyleArray)
    \/ \E m \in Faults : NamingThrows(m)
    \/ \E k \in ClickedSlots, text \in PlainChunks :
          delivered < MaxSharedIncrements /\ TaskIncrement(k, text)
    \/ \E k \in Slots : TaskEnd(k)
    \/ \E a \in ClickedSlots : FocusArtifact(a)
    \/ handleMoreLikeThis
    \/ \E s \in 0 .. nextId, i \in ClickedSlots : handleToggleBlendSelection(ArtifactId(s, i))
    \/ handleBlendStyles

SpecModel == Init /\ [][NextModel]_vars

\* The two copies of the classifier on every fault and provider.
NextCopies ==
    \/ Classify
    \/ ClassifyDevServer

SpecCopies == InitClassify /\ [][NextCopies]_vars

\* The library: components saved from the sessions, favourites, collections
\* and membership.
NextLibrary ==
    \/ OpenLibrary
    \/ \E n \in 1 .. Len(savedComponents) : handleComponentSelect(n)
    \/ handleMoreLikeThis
    \/ NamingReturns(NoStyleArray)
    \/ \E k \in Slots, text \in PlainChunks :
          delivered < MaxLiveIncrements /\ TaskIncrement(k, text)
    \/ \E k \in Slots : TaskEnd(k)
    \/ \E n \in DOMAIN sessions, j \in 1 .. 5 :
          /\ j \in DOMAIN sessions[n].artifacts
          /\ handleSaveToLibrary(sessions[n].artifacts[j].id, sessions[n].id)
    \/ \E n \in DOMAIN sessions, j \in 1 .. 5 :
          /\ j \in DOMAIN sessions[n].artifacts
          /\ handleSaveAndFavorite(sessions[n].artifacts[j].id, sessions[n].id)
    \/ \E n \in DOMAIN savedComponents : handleToggleFavorite(savedComponents[n].id)

SpecLibrary == Init /\ [][NextLibrary]_vars

\* Collections: creation, membership updates from the collection manager,
\* saves of a collection as the caller holds it, and deletions.
NextCollections ==
    \/ OpenLibrary
    \/ \E n \in 1 .. Len(savedComponents) : handleComponentSelect(n)
    \/ \E n \in DOMAIN sessions, j \in 1 .. 5 :
          /\ j \in DOMAIN sessions[n].artifacts
          /\ handleSaveToLibrary(sessions[n].artifacts[j].id, sessions[n].id)
    \/ handleMoreLikeThis
    \/ handleCreateCollection
    \/ \E n \in DOMAIN savedComponents, k \in DOMAIN collections :
          handleUpdateCollections(savedComponents[n].id,
                                  NewSelected(savedComponents[n].id, collections[k].id))
    \/ \E k \in DOMAIN collections : \E ids \in HeldComponentIds(collections[k]) :
          handleUpdateCollection([collections[k] EXCEPT !.componentIds = ids])
    \/ \E k \in DOMAIN collections : handleDeleteCollection(collections[k].id)

SpecCollections == Init /\ [][NextCollections]_vars

(***************************************************************************)
(* Properties.                                                             *)
(***************************************************************************)
\* the task of slot k takes a step: an increment, its completion or its failure
TaskSteps(k) ==
    /\ tasks[k].pc = "reading"
    /\ tasks'[k] # tasks[k]
    /\ tasks'[k].artifact = tasks[k].artifact

\* the artifact of that id in a list of sessions
ArtifactWithId(list, id) ==
    LET i == CHOOSE i \in DOMAIN list :
                 \E j \in DOMAIN list[i].artifacts : list[i].artifacts[j].id = id
        j == CHOOSE j \in DOMAIN list[i].artifacts : list[i].artifacts[j].id = id
    IN  list[i].artifacts[j]

\* C1: an increment or completion update made by the task that owns artifact A
\* of session S changes A only: every other artifact of S, every other session
\* and the length of the session list are left as they were.
UpdateTouchesOnlyItsArtifact ==
    [][\A k \in Slots : TaskSteps(k) =>
          /\ Len(sessions') = Len(sessions)
          /\ \A i \in DOMAIN sessions :
                /\ sessions'[i].id = sessions[i].id
                /\ sessions'[i].prompt = sessions[i].prompt
                /\ DOMAIN sessions'[i].artifacts = DOMAIN sessions[i].artifacts
                /\ \A j \in DOMAIN sessions[i].artifacts :
                      (\/ sessions[i].id # job.sessionId
                       \/ sessions[i].artifacts[j].id # tasks[k].artifact)
                      => sessions'[i].artifacts[j] = sessions[i].artifacts[j]]_vars

\* two tasks of the second session have written different texts to their own
\* artifacts, one of them already complete, while an earlier session exists
TwoTasksHaveWritten ==
    /\ Len(sessions) = 2
    /\ \E k1, k2 \in Slots :
          /\ tasks[k1].pc = "ended"
          /\ tasks[k2].pc = "reading"
          /\ tasks[k1].acc = << "a" >>
          /\ tasks[k2].acc = << "a", "a" >>
          /\ ArtifactWithId(sessions, tasks[k1].artifact).html = << "a" >>
          /\ ArtifactWithId(sessions, tasks[k1].artifact).status = "complete"
          /\ ArtifactWithId(sessions, tasks[k2].artifact).html = << "a", "a" >>
          /\ \A k \in Slots \ {k1, k2} :
                ArtifactWithId(sessions, tasks[k].artifact).html = << >>

\* C2: when the task of one artifact fails, that artifact alone becomes Error:
\* no sibling task is cancelled or touched, and every task that ends with
\* content leaves its artifact Complete with its own content.
FailureStaysWithItsArtifact ==
    /\ [][\A k \in Slots : (TaskSteps(k) /\ tasks'[k].pc = "thrown") =>
             /\ ArtifactWithId(sessions', tasks[k].artifact).status = "error"
             /\ \A j \in Slots \ {k} :
                   /\ tasks'[j] = tasks[j]
                   /\ tasks[j].pc # "idle" =>
                         ArtifactWithId(sessions', tasks[j].artifact)
                             = ArtifactWithId(sessions, tasks[j].artifact)]_vars
    /\ [](\A k \in Slots :
             /\ tasks[k].pc = "thrown" =>
                   ArtifactWithId(sessions, tasks[k].artifact).status = "error"
             /\ (tasks[k].pc = "ended" /\ FinalHtml(tasks[k].acc) # << >>) =>
                   /\ ArtifactWithId(sessions, tasks[k].artifact).status = "complete"
                   /\ ArtifactWithId(sessions, tasks[k].artifact).html
                          = FinalHtml(tasks[k].acc))

\* one task of five has failed and the four others have completed with content
OneFailedFourComplete ==
    \E k \in Slots :
        /\ tasks[k].pc = "thrown"
        /\ ArtifactWithId(sessions, tasks[k].artifact).status = "error"
        /\ \A j \in Slots \ {k} :
              /\ tasks[j].pc = "ended"
              /\ tasks[j].acc # << >>
              /\ ArtifactWithId(sessions, tasks[j].artifact).status = "complete"
              /\ ArtifactWithId(sessions, tasks[j].artifact).html = tasks[j].acc

\* C3: the status of an artifact only moves from Streaming to Complete or to
\* Error, and once Complete or Error it never changes again, whatever the
\* operation (More like this, Blend, the fatal path, applyVariation).
StatusIsFinalOnceTerminal ==
    [][\A i \in DOMAIN sessions : \A j \in DOMAIN sessions[i].artifacts :
          /\ sessions[i].artifacts[j].status \in {"streaming", "complete", "error"}
          /\ sessions[i].artifacts[j].status \in {"complete", "error"} =>
                /\ i \in DOMAIN sessions'
                /\ j \in DOMAIN sessions'[i].artifacts
                /\ sessions'[i].artifacts[j].status = sessions[i].artifacts[j].status]_vars

\* C4: the text and the status of an artifact that has an owning task are
\* changed by steps of that task only, while the task runs and after it.
OnlyTheOwningTaskWrites ==
    [][\A k \in Slots :
          (/\ tasks[k].pc # "idle"
           /\ \/ ArtifactWithId(sessions', tasks[k].artifact).html
                    # ArtifactWithId(sessions, tasks[k].artifact).html
              \/ ArtifactWithId(sessions', tasks[k].artifact).status
                    # ArtifactWithId(sessions, tasks[k].artifact).status)
          => TaskSteps(k)]_vars

\* C5: in every workflow a task that has settled left its artifact Complete
\* when its result, trimmed and stripped of fences, is not empty, and Error
\* with a diagnostic body and the label "Error" when the result is empty or
\* the stream threw.
SettledIsCompleteOrDiagnosed ==
    \A k \in Slots :
        LET art == ArtifactWithId(sessions, tasks[k].artifact)
        IN  /\ (tasks[k].pc = "ended" /\ FinalHtml(tasks[k].acc) # << >>) =>
                  art.status = "complete"
            /\ (\/ tasks[k].pc = "thrown"
                \/ tasks[k].pc = "ended" /\ FinalHtml(tasks[k].acc) = << >>) =>
                  /\ art.status = "error"
                  /\ art.html # << >>
                  /\ art.styleName = << "Error" >>

\* C6: when the naming call throws, no task has been started, every artifact
\* of the new session is Error with one and the same diagnostic body, and the
\* other sessions are left as they were.
NamingFailureMarksTheWholeSession ==
    [][(job.pc = "naming" /\ job'.pc = "idle") =>
          /\ \A k \in Slots : tasks[k].pc = "idle" /\ tasks'[k].pc = "idle"
          /\ Len(sessions') = Len(sessions)
          /\ \A i \in DOMAIN sessions :
                IF sessions[i].id = job.sessionId
                THEN \A j \in DOMAIN sessions'[i].artifacts :
                        /\ sessions'[i].artifacts[j].status = "error"
                        /\ sessions'[i].artifacts[j].html # << >>
                        /\ sessions'[i].artifacts[j].html = sessions'[i].artifacts[1].html
                ELSE sessions'[i] = sessions[i]]_vars

\* the naming call of the second session has thrown: its five artifacts are
\* Error with the same body, the first session still shows a complete artifact
SecondSessionFailedInNaming ==
    /\ Len(sessions) = 2
    /\ job = NoJob
    /\ \A k \in Slots : tasks[k].pc = "idle"
    /\ Len(sessions[2].artifacts) = 5
    /\ \A j \in 1 .. 5 :
          /\ sessions[2].artifacts[j].status = "error"
          /\ sessions[2].artifacts[j].html = sessions[2].artifacts[1].html
          /\ sessions[2].artifacts[j].html # << >>
    /\ \E j \in DOMAIN sessions[1].artifacts :
          sessions[1].artifacts[j].status = "complete"

\* C7 as stated: the text of an artifact whose task has settled is the
\* concatenation of all the increments delivered to that task.
FinalTextIsTheConcatenation ==
    \A k \in Slots : tasks[k].pc \in {"ended", "thrown"} =>
        ArtifactWithId(sessions, tasks[k].artifact).html = tasks[k].acc

\* C7: the text of a Complete artifact is the concatenation of the increments
\* of its task, trimmed and stripped of a leading and of a trailing code
\* fence; the text of an Error artifact is the diagnostic body, in which the
\* increments received do not appear.
FinalTextIsTheCleanedConcatenation ==
    \A k \in Slots :
        LET art == ArtifactWithId(sessions, tasks[k].artifact)
            cleaned == StripTrailingFence(StripLeadingFence(
                           StripLeadingHtmlFence(TrimEnd(TrimStart(tasks[k].acc)))))
        IN  /\ (tasks[k].pc = "ended" /\ cleaned # << >>) =>
                  art.status = "complete" /\ art.html = cleaned
            /\ (tasks[k].pc = "ended" /\ cleaned = << >>) =>
                  /\ art.status = "error"
                  /\ art.html = ErrorHtml("send", << "No HTML content received from API" >>)
            /\ tasks[k].pc = "thrown" =>
                  /\ art.status = "error"
                  /\ \E m \in Faults : art.html = ErrorHtml("send", m)

\* a task has completed on increments that start with a code fence: the text
\* of its artifact is shorter than what was delivered
CompleteTextWasCleaned ==
    \E k \in Slots :
        /\ tasks[k].pc = "ended"
        /\ tasks[k].acc = Fence \o << "a" >>
        /\ ArtifactWithId(sessions, tasks[k].artifact).status = "complete"
        /\ ArtifactWithId(sessions, tasks[k].artifact).html = << "a" >>

\* C8: increments are applied in the order of delivery: each one extends the
\* accumulation of its task at the end, and the text of the artifact after
\* the k-th increment is the concatenation of increments 1 to k.
IncrementsExtendTheText ==
    [][\A k \in Slots : (TaskSteps(k) /\ tasks'[k].pc = "reading") =>
          /\ \E text \in Chunks : tasks'[k].acc = tasks[k].acc \o text
          /\ ArtifactWithId(sessions, tasks[k].artifact).html = tasks[k].acc
          /\ ArtifactWithId(sessions', tasks[k].artifact).html = tasks'[k].acc
          /\ ArtifactWithId(sessions', tasks[k].artifact).status = "streaming"]_vars

\* a task has received two different increments and its artifact shows both,
\* in the order of delivery
TwoIncrementsInOrder ==
    \E k \in Slots :
        /\ tasks[k].pc = "reading"
        /\ tasks[k].acc = << "a", " " >>
        /\ ArtifactWithId(sessions, tasks[k].artifact).html = << "a", " " >>

\* C9: an accepted Start appends exactly one session at the end of the list,
\* holding five streaming placeholders with empty text, and the active index
\* designates that session.
StartAppendsOneSession ==
    [][(job.pc = "idle" /\ job'.kind = "send") =>
          /\ ~isLoading
          /\ Len(sessions') = Len(sessions) + 1
          /\ SubSeq(sessions', 1, Len(sessions)) = sessions
          /\ currentSessionIndex' = Len(sessions') - 1
          /\ sessions'[Len(sessions')].id = job'.sessionId
          /\ \A i \in DOMAIN sessions : sessions[i].id # job'.sessionId
          /\ Len(sessions'[Len(sessions')].artifacts) = 5
          /\ \A j \in 1 .. 5 :
                /\ sessions'[Len(sessions')].artifacts[j].status = "streaming"
                /\ sessions'[Len(sessions')].artifacts[j].html = << >>]_vars

\* Start has just been accepted while an earlier session exists
SecondSessionJustStarted ==
    /\ Len(sessions) = 2
    /\ job.kind = "send"
    /\ job.pc = "naming"
    /\ currentSessionIndex = 1
    /\ sessions[2].id = job.sessionId
    /\ sessions[1].id # job.sessionId
    /\ \A j \in 1 .. 5 : sessions[2].artifacts[j].status = "streaming"

\* C10: a change of the active session while tasks are in flight leaves the
\* tasks as they are, and a step of a task changes neither the active index
\* nor, when another session is active, anything of that session.
TasksAndActiveSessionAreIndependent ==
    [][/\ (currentSessionIndex' # currentSessionIndex
           /\ \E k \in Slots : tasks[k].pc = "reading") =>
             tasks' = tasks /\ job' = job
       /\ \A k \in Slots : TaskSteps(k) =>
             /\ currentSessionIndex' = currentSessionIndex
             /\ focusedArtifactIndex' = focusedArtifactIndex
             /\ (HasSession /\ CurrentSession.id # job.sessionId) =>
                   sessions'[currentSessionIndex + 1] = CurrentSession]_vars

\* a library component was opened in a second session while the tasks of the
\* first were in flight; one of them has since written and completed
TaskWroteBehindTheActiveSession ==
    /\ staleWrite
    /\ Len(sessions) = 2
    /\ currentSessionIndex = 1
    /\ \E k \in Slots :
          /\ tasks[k].pc = "ended"
          /\ tasks[k].acc # << >>
          /\ sessions[1].artifacts[k + 1].id = tasks[k].artifact
          /\ sessions[1].artifacts[k + 1].status = "complete"
          /\ sessions[1].artifacts[k + 1].html = tasks[k].acc

\* C11: the number of artifacts of a session is fixed when the session is
\* created: no step (increment, label update, completion, error, fatal
\* failure, applyVariation) changes it.
ArtifactCountIsFixed ==
    [][\A i \in DOMAIN sessions :
          /\ i \in DOMAIN sessions'
          /\ sessions'[i].id = sessions[i].id
          /\ Len(sessions'[i].artifacts) = Len(sessions[i].artifacts)]_vars

\* a session of five artifacts has gone through label update, increments,
\* completion, an error and an applied variation, and still has five
FiveArtifactsAfterEveryUpdate ==
    /\ Len(sessions) = 2
    /\ Len(sessions[2].artifacts) = 5
    /\ applies = 1
    /\ \E j1, j2, j3 \in 2 .. 5 :
          /\ sessions[2].artifacts[j1].html = << "v" >>
          /\ sessions[2].artifacts[j2].status = "error"
          /\ sessions[2].artifacts[j2].styleName = << "Error" >>
          /\ sessions[2].artifacts[j3].status = "complete"
          /\ sessions[2].artifacts[j3].html = << "a" >>

\* C12: the session list is append-only: its length never decreases and the
\* session at an index keeps its id for the rest of the run.
SessionListIsAppendOnly ==
    [][/\ Len(sessions') >= Len(sessions)
       /\ Len(sessions') <= Len(sessions) + 1
       /\ \A i \in DOMAIN sessions : sessions'[i].id = sessions[i].id]_vars

\* a library session was appended behind a generated one, and the user has
\* gone back to the first: both are where they were put
TwoSessionsKeptInOrder ==
    /\ Len(sessions) = 2
    /\ sessions[1].id = 1
    /\ sessions[2].id = PersistedLibrary[1].sessionId
    /\ currentSessionIndex = 0
    /\ job = NoJob
    /\ \A k \in Slots : tasks[k].pc \in {"ended", "thrown"}

\* C13: session ids are pairwise distinct and artifact ids are unique over the
\* whole session list, after any sequence of Start, More like this, Blend and
\* library selections.
IdsAreUnique ==
    /\ \A i1, i2 \in DOMAIN sessions :
          sessions[i1].id = sessions[i2].id => i1 = i2
    /\ \A i1, i2 \in DOMAIN sessions :
          \A j1 \in DOMAIN sessions[i1].artifacts, j2 \in DOMAIN sessions[i2].artifacts :
             sessions[i1].artifacts[j1].id = sessions[i2].artifacts[j2].id
                => (i1 = i2 /\ j1 = j2)

\* More like this was started from a library component: slot 0 of the new
\* session copies the component under an id of its own
CopiedArtifactHasItsOwnId ==
    /\ Len(sessions) = 2
    /\ sessions[1].id = PersistedLibrary[1].sessionId
    /\ Len(sessions[2].artifacts) = 5
    /\ sessions[2].artifacts[1].html = sessions[1].artifacts[1].html
    /\ sessions[2].artifacts[1].id # sessions[1].artifacts[1].id

\* the part of the stream that the channel has delivered
Delivered == SubSeq(reader.stream, 1, Len(reader.stream) - Len(reader.rest))

\* the run of the consumer has come to its end
ReaderHasEnded == reader.outcome \in {"returned", "ended", "thrown"}

ReaderTimedOut == reader.outcome = "thrown" /\ reader.message = << "Request timeout" >>

\* the complete lines of a stream that are frames, in order
FrameLinesOf(stream) ==
    LET pieces == SplitLines(stream, << >>, << >>)
    IN  SelectSeq(SubSeq(pieces, 1, Len(pieces) - 1), LAMBDA l : StartsWith(l, Prefix))

IsTerminalLine(line) == line = Prefix \o DonePayload

IsErrorLine(line) == \E m \in {"m"} : line = Prefix \o ErrorPayload(m)

\* the texts of the data frames that come before the first terminal or error
\* frame of a sequence of frame lines
RECURSIVE TextsUntilStop(_)
TextsUntilStop(lines) ==
    IF lines = << >> THEN << >>
    ELSE IF IsTerminalLine(Head(lines)) \/ IsErrorLine(Head(lines)) THEN << >>
    ELSE IF \E t \in {"x", "y"} : Head(lines) = Prefix \o TextPayload(t)
    THEN << Head(lines)[Len(Prefix) + 2] >> \o TextsUntilStop(Tail(lines))
    ELSE TextsUntilStop(Tail(lines))

\* the first terminal or error frame among frame lines: "done", "error", or
\* "none" when there is neither
RECURSIVE FirstStop(_)
FirstStop(lines) ==
    IF lines = << >> THEN "none"
    ELSE IF IsTerminalLine(Head(lines)) THEN "done"
    ELSE IF IsErrorLine(Head(lines)) THEN "error"
    ELSE FirstStop(Tail(lines))

\* C17: for every stream of newline-terminated frames and every way of
\* cutting it into chunks, also inside a frame line, the consumer yields the
\* increments it yields when the whole stream arrives as one chunk.
ChunkingDoesNotChangeTheYield ==
    (ReaderHasEnded /\ ~ReaderTimedOut /\ ~reader.cut) =>
        reader.yielded =
            (IF reader.stream = << >> THEN << >>
             ELSE ReadChunk(FreshReader(reader.stream), reader.stream).yielded)

\* a stream of two data frames has been consumed to its end in chunks, one
\* of which ended inside a line
TwoFramesReadInPieces ==
    /\ reader.outcome = "ended"
    /\ reader.partial
    /\ ~reader.cut
    /\ reader.stream = Frame(TextPayload("x")) \o Frame(TextPayload("y"))
    /\ reader.yielded = << "x", "y" >>

\* C18: when the consumer decodes a terminal frame the sequence ends without
\* error: nothing is yielded after it, whether more data frames follow in the
\* same chunk or in later ones.
TerminalFrameEndsTheSequence ==
    /\ [](FirstStop(FrameLinesOf(Delivered)) = "done" =>
             /\ reader.outcome = "returned"
             /\ reader.message = << >>
             /\ reader.yielded = TextsUntilStop(FrameLinesOf(Delivered)))
    /\ [][reader.outcome = "returned" => reader' = reader]_vars

\* the terminal frame was followed by a data frame in the same chunk: the
\* sequence has ended with the one increment that came before it
DataAfterTerminalIsNotYielded ==
    /\ reader.outcome = "returned"
    /\ reader.stream = Frame(TextPayload("x")) \o Frame(DonePayload) \o Frame(TextPayload("y"))
    /\ reader.rest = << >>
    /\ reader.yielded = << "x" >>

\* C19: when the consumer decodes a frame with an error payload it raises an
\* error at once and the sequence ends: no increment of a later frame is
\* yielded.
ErrorFrameEndsTheSequence ==
    /\ [](FirstStop(FrameLinesOf(Delivered)) = "error" =>
             /\ reader.outcome = "thrown"
             /\ reader.message = << "API error: ", "m" >>
             /\ reader.yielded = TextsUntilStop(FrameLinesOf(Delivered)))
    /\ [][reader.outcome = "thrown" => reader' = reader]_vars

\* an error frame stood between two data frames, all in one chunk: the
\* consumer has thrown after the first increment
DataAfterErrorIsNotYielded ==
    /\ reader.outcome = "thrown"
    /\ reader.message = << "API error: ", "m" >>
    /\ reader.stream = Frame(TextPayload("x")) \o Frame(ErrorPayload("m")) \o Frame(TextPayload("y"))
    /\ reader.rest = << >>
    /\ reader.yielded = << "x" >>

\* the consumer has found the channel closed
ChannelEndSeen ==
    \/ reader.outcome = "ended"
    \/ reader.outcome = "thrown" /\ reader.message[1] = "Stream error: "

\* C20, as stated: when the channel ends without any frame having been
\* received the consumer raises an error.
NoFrameReceivedIsAnError ==
    (ChannelEndSeen /\ FrameLinesOf(Delivered) = << >>) => reader.outcome = "thrown"

\* C20: when the channel ends without any chunk having been received the
\* consumer raises an error; when it ends after at least one chunk, complete
\* frame in it or not, the sequence ends without error; and a terminal frame
\* ends the sequence without error even if no increment came before it.
NoChunkReceivedIsAnError ==
    /\ (ChannelEndSeen /\ Delivered = << >>) =>
           /\ reader.outcome = "thrown"
           /\ reader.message = << "Stream error: ", "No data received from API" >>
    /\ (ChannelEndSeen /\ Delivered # << >>) =>
           /\ reader.outcome = "ended"
           /\ reader.message = << >>
    /\ (FirstStop(FrameLinesOf(Delivered)) = "done"
          /\ TextsUntilStop(FrameLinesOf(Delivered)) = << >>) =>
           /\ reader.outcome = "returned"
           /\ reader.message = << >>
           /\ reader.yielded = << >>

\* the channel of a stream of frames closed before its first chunk: the
\* consumer has thrown
ChannelClosedBeforeAnyChunk ==
    /\ reader.outcome = "thrown"
    /\ reader.message[1] = "Stream error: "
    /\ reader.stream = Frame(TextPayload("x")) \o Frame(DonePayload)
    /\ reader.rest = reader.stream
    /\ reader.yielded = << >>

\* the frames the server owes for a sequence of provider events
RECURSIVE DataFramesOf(_, _)
DataFramesOf(provider, events) ==
    IF events = << >> THEN << >>
    ELSE (IF Head(events).kind = "text" /\ (provider # "openai" \/ Head(events).text # "")
          THEN Prefix \o TextPayload(Head(events).text) \o << "\n", "\n" >>
          ELSE << >>)
         \o DataFramesOf(provider, Tail(events))

TerminalFrame == Prefix \o DonePayload \o << "\n", "\n" >>

\* C14: on a streaming run that succeeds the server writes one data frame
\* per surfaced increment, in the provider's order, then one terminal frame,
\* and closes the response; nothing is written after the terminal frame.
StreamIsDataThenOneTerminal ==
    /\ []((wire.pc = "calling" /\ wire.stream) =>
             wire.out = DataFramesOf(wire.provider, wire.events))
    /\ []((wire.pc = "done" /\ wire.stream /\ wire.status = 200 /\ wire.fault = NoFault) =>
             /\ wire.out = DataFramesOf(wire.provider, wire.events) \o TerminalFrame
             /\ wire.end = "closed")
    /\ [][wire.pc = "done" => wire' = wire]_vars

\* two increments with an unsurfaced event between them have been streamed
\* and the response is closed
TwoIncrementsStreamedAndClosed ==
    /\ wire.pc = "done"
    /\ wire.end = "closed"
    /\ wire.stream
    /\ wire.events = << [kind |-> "text", text |-> "x"], [kind |-> "other", text |-> ""],
                        [kind |-> "text", text |-> "y"] >>
    /\ wire.out = Frame(TextPayload("x")) \o Frame(TextPayload("y")) \o Frame(DonePayload)

\* C15, as stated: when the provider fails after streaming has begun, the
\* server still writes the terminal frame, after it has surfaced the error.
TerminalFrameFollowsAFault ==
    (wire.pc = "done" /\ wire.stream /\ wire.fault # NoFault) =>
        /\ EndsWith(wire.out, TerminalFrame)
        /\ wire.end = "closed"

\* C16, as stated: a fault of the provider during a streaming call reaches
\* the client as an error frame in the stream, and during a call without
\* stream as an error body with the classified status; it is never swallowed.
FaultIsSurfaced ==
    (wire.pc = "done" /\ wire.fault # NoFault) =>
        IF wire.stream
        THEN \E i \in 1 .. Len(wire.out) : wire.out[i] = "{error:"
        ELSE /\ wire.end = "closed"
             /\ wire.status = parseProviderError(wire.fault, wire.provider).status
             /\ wire.body.kind = "error"

\* C21, as stated: once the timeout has elapsed on a stream that has neither
\* ended nor failed, the consumption comes to an end, with the timeout error
\* unless the stream ends or fails first, also when the channel delivers no
\* further chunk.
TimeoutBoundsTheConsumption ==
    (reader.outcome = "reading" /\ reader.expired) ~> (reader.outcome # "reading")

\* the part of the text that the extractor has been fed
Fed == SubSeq(Flatten(extractor.pieces), 1,
              Len(Flatten(extractor.pieces)) - Len(extractor.rest))

\* C22: for every text and every way of cutting it into increments, also in
\* the middle of a record, the extractor yields the records it yields when
\* the whole text arrives as one increment.
IncrementsDoNotChangeTheRecords ==
    extractor.state # "idle" =>
        extractor.yielded =
            (IF Fed = << >> THEN << >>
             ELSE ExtractChunk(FreshExtractor(extractor.pieces), Fed).yielded)

\* two records have been yielded from a text that was cut inside a record
TwoRecordsFromPieces ==
    /\ extractor.state = "ended"
    /\ extractor.rest = << >>
    /\ extractor.split
    /\ extractor.pieces = << RecordSimple, RecordNested >>
    /\ extractor.yielded = << RecordSimple, RecordNested >>

\* what a piece gives when its braces are counted on their own
YieldOfPiece(p) ==
    IF p \in {RecordSimple, RecordHtml, RecordNested} THEN << p >>
    ELSE IF p = SpanAroundRecord THEN << RecordSimple >>
    ELSE << >>

RECURSIVE YieldOfPieces(_)
YieldOfPieces(ps) ==
    IF ps = << >> THEN << >> ELSE YieldOfPiece(Head(ps)) \o YieldOfPieces(Tail(ps))

\* C23: when a candidate span fails to parse, the scan goes on at the next
\* opening brace after its start: the valid records that follow a malformed
\* span are yielded all the same.
MalformedSpanDoesNotBlock ==
    (/\ extractor.failed
     /\ extractor.rest = << >>
     /\ \A i \in 1 .. Len(extractor.pieces) :
          extractor.pieces[i] \notin {SpanUnclosed, RecordWithOpeningBrace})
        => extractor.yielded = YieldOfPieces(extractor.pieces)

\* a record behind a malformed span, and one inside a malformed span, have
\* been yielded
RecordsAfterMalformedSpan ==
    /\ extractor.failed
    /\ extractor.rest = << >>
    /\ extractor.pieces = << SpanMalformed, RecordSimple, SpanAroundRecord >>
    /\ extractor.yielded = << RecordSimple, RecordSimple >>

\* the records among ps that end within the first n characters, and the
\* characters of those n that follow the last of them
RECURSIVE RecordsWithin(_, _, _, _)
RecordsWithin(ps, n, records, tail) ==
    IF ps = << >> \/ n = 0 THEN [records |-> records, tail |-> tail]
    ELSE IF Len(Head(ps)) > n
    THEN [records |-> records, tail |-> tail \o SubSeq(Head(ps), 1, n)]
    ELSE IF Head(ps) \in {RecordSimple, RecordHtml, RecordNested}
    THEN RecordsWithin(Tail(ps), n - Len(Head(ps)), Append(records, Head(ps)), << >>)
    ELSE RecordsWithin(Tail(ps), n - Len(Head(ps)), records, tail \o Head(ps))

\* C24: of a text of records with balanced braces the extractor has yielded,
\* after every increment, the records whose closing brace has arrived, in
\* their order in the text, and has removed them from its buffer; a record
\* with an inner pair of braces that is cut between increments is yielded
\* whole.
RecordsAreYieldedWhenClosed ==
    (/\ extractor.state # "idle"
     /\ \A i \in 1 .. Len(extractor.pieces) :
          extractor.pieces[i] \in {RecordSimple, RecordHtml, RecordNested, << "t" >>, << "}" >>})
        => /\ extractor.yielded =
                RecordsWithin(extractor.pieces, Len(Fed), << >>, << >>).records
           /\ extractor.buffer =
                RecordsWithin(extractor.pieces, Len(Fed), << >>, << >>).tail

\* a record with inner braces, cut between them, has been yielded whole and
\* before the record that follows it
HtmlRecordYieldedWhole ==
    /\ extractor.deep
    /\ extractor.pieces = << RecordHtml, RecordSimple >>
    /\ extractor.yielded = << RecordHtml, RecordSimple >>
    /\ extractor.buffer = << >>

\* the first of the six tests that a fault passes, 7 when it passes none
FirstRule(fault) ==
    LET own == IF fault.status # 0 THEN fault.status ELSE fault.statusCode
        passes == { i \in 1 .. 6 :
                      \/ Keywords[i] \in fault.classes
                      \/ i = 1 /\ own = 401
                      \/ i = 2 /\ own = 429
                      \/ i = 3 /\ own = 404 }
    IN  IF passes = {} THEN 7 ELSE CHOOSE i \in passes : \A j \in passes : i <= j

RuleStatus == << 401, 429, 404, 400, 402, 504 >>

\* C25: the classifier tests auth (401), rate limit (429), not found (404),
\* too large (400), billing (402), timeout (504) in this order and answers
\* with the first test that the message or the status of the fault passes.
FirstRuleWins ==
    \A i \in 1 .. Len(wire.calls) :
        FirstRule(wire.fault) # 7 => wire.calls[i].status = RuleStatus[FirstRule(wire.fault)]

\* a fault that passes the tests for rate limit, not found and timeout has
\* been classified as a rate limit
SeveralRulesOneOutcome ==
    /\ wire.pc = "classify"
    /\ wire.fault = [classes |-> {"rate", "timeout"}, status |-> 404, statusCode |-> 0]
    /\ Len(wire.calls) = 1
    /\ wire.calls[1].status = 429

\* C26: for a fault that passes none of the six tests the status returned is
\* the fault's own status when that is 400 or more, and 500 otherwise, also
\* when the fault has no status.
UnmatchedFaultKeepsItsStatus ==
    \A i \in 1 .. Len(wire.calls) :
        FirstRule(wire.fault) = 7 =>
            wire.calls[i].status =
                (IF wire.fault.status >= 400 THEN wire.fault.status
                 ELSE IF wire.fault.status = 0 /\ wire.fault.statusCode >= 400
                      THEN wire.fault.statusCode
                 ELSE 500)

\* a fault with status 503 and no keyword has been answered with 503
UnmatchedFaultWithStatus ==
    /\ wire.pc = "classify"
    /\ wire.fault = [classes |-> {}, status |-> 503, statusCode |-> 0]
    /\ Len(wire.calls) = 1
    /\ wire.calls[1].status = 503

\* C27, as stated: whatever the fault and the provider, the message of the
\* classifier names the provider.
MessageNamesTheProvider ==
    \A i \in 1 .. Len(wire.calls) :
        \E k \in 1 .. Len(wire.calls[i].message) :
            wire.calls[i].message[k] = wire.provider

\* C30: the same fault for the same provider gets the same status and the
\* same message every time it is presented, whatever came before.
ClassificationIsDeterministic ==
    \A i, j \in 1 .. Len(wire.calls) : wire.calls[i] = wire.calls[j]

\* a fault without status or keyword has been presented MaxCalls times
SameFaultPresentedAgain ==
    /\ wire.pc = "classify"
    /\ wire.fault = [classes |-> {}, status |-> 0, statusCode |-> 0]
    /\ Len(wire.calls) = MaxCalls
    /\ wire.calls[MaxCalls].status = 500

\* the answer to a request that fails validation: an error body with this
\* status and message, no call of the provider and no frame
Rejected(status, message) ==
    /\ wire.pc = "done"
    /\ wire.end = "closed"
    /\ wire.status = status
    /\ wire.body = [kind |-> "error", text |-> message]
    /\ wire.out = << >>
    /\ wire.events = << >>
    /\ wire.fault = NoFault

\* C28: POST /generate answers a request without prompt with 400, else one
\* with an unknown model with 400, else one without credential for the
\* model's provider with 500; the first failure decides, the provider is not
\* called and no frame is written.
ValidationStopsAtTheFirstFailure ==
    (/\ wire.endpoint \in {"vercel", "generate"}
     /\ wire.request.method = "POST")
        => /\ ~wire.request.hasPrompt => Rejected(400, << "Prompt is required" >>)
           /\ (wire.request.hasPrompt /\ ~wire.request.knownModel)
                 => Rejected(400, << "Unknown model" >>)
           /\ (wire.request.hasPrompt /\ wire.request.knownModel /\ ~wire.request.hasKey)
                 => Rejected(500, << "API_KEY is not configured" >>)

\* a streaming request with a prompt, an unknown model and no credential has
\* been answered with 400 for the model
UnknownModelBeforeMissingKey ==
    /\ wire.endpoint = "generate"
    /\ wire.stream
    /\ wire.request = [method |-> "POST", hasPrompt |-> TRUE, knownModel |-> FALSE,
                       hasKey |-> FALSE]
    /\ Rejected(400, << "Unknown model" >>)

\* C29: the session of More like this is created with slot 0 Complete and
\* holding the text of the source artifact, and the fan-out starts four
\* tasks, for slots 1 to 4, and none for slot 0.
MoreLikeThisSeedsSlotZero ==
    /\ [][(job.kind # "more" /\ job'.kind = "more") =>
            /\ Len(sessions') = Len(sessions) + 1
            /\ sessions'[Len(sessions')].artifacts[1].status = "complete"
            /\ sessions'[Len(sessions')].artifacts[1].html = FocusedArtifact.html
            /\ \A i \in 2 .. 5 : sessions'[Len(sessions')].artifacts[i].status = "streaming"
            /\ \A k \in Slots : tasks'[k].pc = "idle"]_vars
    /\ [][(job.kind = "more" /\ job.pc = "naming" /\ job'.pc = "fanout") =>
            { k \in Slots : tasks'[k].pc # "idle" } = 1 .. 4]_vars
    /\ [](job.kind = "more" => tasks[0].pc = "idle")

\* the four tasks of a More like this session are reading while its slot 0
\* is Complete with the text of the source
FourTasksBesideTheOriginal ==
    /\ job.kind = "more"
    /\ job.pc = "fanout"
    /\ \A k \in 1 .. 4 : tasks[k].pc = "reading"
    /\ tasks[0].pc = "idle"
    /\ sessions[Len(sessions)].id = job.sessionId
    /\ sessions[Len(sessions)].artifacts[1].status = "complete"
    /\ sessions[Len(sessions)].artifacts[1].html # << >>
    /\ sessions[Len(sessions)].artifacts[1].html = sessions[1].artifacts[1].html


\* artifact j of session n has been created and is Streaming / has settled
IsStreaming(n, j) ==
    n \in DOMAIN sessions /\ sessions[n].artifacts[j].status = "streaming"

HasSettled(n, j) ==
    n \in DOMAIN sessions /\ sessions[n].artifacts[j].status \in {"complete", "error"}

\* the loading flag falls only in a step that leaves no task reading
LoadingEndsAfterTheTasks ==
    [][(isLoading /\ ~isLoading') => \A k \in Slots : tasks'[k].pc # "reading"]_vars

\* every Streaming artifact settles and the loading flag falls
ArtifactsSettleAndLoadingEnds ==
    /\ \A n \in 1 .. MaxSessions, j \in 1 .. 5 : IsStreaming(n, j) ~> HasSettled(n, j)
    /\ isLoading ~> ~isLoading

\* C31 as stated: when every stream-consumption call ends, every artifact
\* created Streaming eventually is Complete or Error and the loading flag
\* eventually is false again, not before the tasks of the session have settled.
StreamsEndingIsEnough ==
    /\ ArtifactsSettleAndLoadingEnds
    /\ LoadingEndsAfterTheTasks

\* C31: when every stream-consumption call ends and the naming call made
\* before fan-out does not stay pending for ever, every artifact created
\* Streaming eventually is Complete or Error and the loading flag eventually
\* is false again; the flag never falls while a task is still reading.
StreamsAndNamingEndingIsEnough ==
    /\ ([]<>(job.pc # "naming")) => ArtifactsSettleAndLoadingEnds
    /\ LoadingEndsAfterTheTasks

\* the five tasks of a session have settled, one of them by a failure and one
\* with content, and the loading flag is false
FiveTasksSettledLoadingOver ==
    /\ ~isLoading
    /\ \A k \in Slots : tasks[k].pc \in {"ended", "thrown"}
    /\ \E k \in Slots : tasks[k].pc = "thrown"
    /\ \E j \in 1 .. 5 : sessions[Len(sessions)].artifacts[j].status = "complete"
    /\ \A j \in 1 .. 5 : HasSettled(Len(sessions), j)


\* the frame line carries a payload that is skipped: not JSON, or JSON with
\* neither a non-empty text nor an error
IsSkippedLine(line) ==
    \E payload \in { JunkPayload, ApiErrorTextPayload, EmptyObjectPayload, TextPayload("") } :
        line = Prefix \o payload

\* the frame lines without those that are skipped
WithoutSkipped(lines) == SelectSeq(lines, LAMBDA l : ~IsSkippedLine(l))

\* C35: a data frame whose payload is not JSON, or has neither a non-empty
\* text nor an error, is skipped: the consumer does not raise for it and
\* yields nothing for it, and goes on with the next frame as if the frame
\* had not been there; no increment it yields is empty.
SkippedFramesLeaveNoTrace ==
    /\ \A i \in DOMAIN reader.yielded : reader.yielded[i] # ""
    /\ (reader.outcome = "thrown" /\ reader.hasReceivedData)
           => FirstStop(FrameLinesOf(Delivered)) = "error"
    /\ (ReaderHasEnded /\ ~reader.cut) =>
           /\ reader.yielded = TextsUntilStop(WithoutSkipped(FrameLinesOf(reader.stream)))
           /\ (reader.outcome = "thrown" /\ reader.hasReceivedData)
                 <=> FirstStop(WithoutSkipped(FrameLinesOf(reader.stream))) = "error"


\* the session of the running workflow, after the step
JobSessionNext == sessions'[FindSessionIndex(sessions', job.sessionId) + 1]

\* the names the slots are to carry when the naming call answered with response
ExpectedNames(kind, response, source) ==
    IF kind = "send"
    THEN IF Len(response) >= 5 THEN SubSeq(response, 1, 5) ELSE SendFallbackStyles
    ELSE IF Len(response) >= 4 THEN SubSeq(response, 1, 4)
         ELSE << source \o << " - Refined" >>, source \o << " - Bold" >>,
                 source \o << " - Minimal" >>, source \o << " - Warm" >> >>

\* C32: when the naming call returns, whatever it returns (no array, an array
\* with too few names, or enough names), the fan-out starts every task of the
\* workflow, the slots carry the names received or else the built-in default
\* names, and no artifact of the session is set to Error; the artifacts of a
\* session are set to Error before fan-out only when the naming call throws.
NamingResponseIsNeverFatal ==
    /\ [][(job.pc = "naming" /\ job'.pc = "fanout") =>
            LET names == ExpectedNames(job.kind, job'.styleResponse, job.source)
                first == IF job.kind = "send" THEN 1 ELSE 2
            IN  /\ { k \in Slots : tasks'[k].pc = "reading" }
                      = (IF job.kind = "send" THEN 0 .. 4 ELSE 1 .. 4)
                /\ \A j \in first .. 5 :
                      /\ JobSessionNext.artifacts[j].styleName = names[j - first + 1]
                      /\ JobSessionNext.artifacts[j].status = "streaming"
                /\ isLoading']_vars
    /\ [][(job.pc = "naming" /\ \E j \in 1 .. 5 : JobSessionNext.artifacts[j].status = "error")
            => (faults' = faults + 1 /\ job' = NoJob)]_vars

\* More like this after a naming response with two names: the four tasks are
\* reading and the slots carry the default names made from the source's
DefaultNamesAfterAShortArray ==
    /\ job.kind = "more"
    /\ job.pc = "fanout"
    /\ job.styleResponse = ShortStyleArray
    /\ \A k \in 1 .. 4 : tasks[k].pc = "reading"
    /\ sessions[Len(sessions)].artifacts[2].styleName = << "Saved", " - Refined" >>
    /\ sessions[Len(sessions)].artifacts[5].styleName = << "Saved", " - Warm" >>
    /\ \A j \in 1 .. 5 : sessions[Len(sessions)].artifacts[j].status # "error"


\* the artifact of the current session that carries the id, or none
SelectedArtifacts(id) ==
    { j \in DOMAIN CurrentSession.artifacts : CurrentSession.artifacts[j].id = id }

\* C33: More like this starts (a session is appended, the naming request is
\* issued, the loading flag is raised) only when the focused artifact is
\* Complete; Blend starts only when exactly two artifacts of the current
\* session are selected and both are Complete.
WorkflowsStartFromCompleteArtifacts ==
    /\ [][(job.kind # "more" /\ job'.kind = "more") =>
            /\ HasSession
            /\ focusedArtifactIndex # NULL
            /\ FocusedArtifact.status = "complete"]_vars
    /\ [][(job.kind # "blend" /\ job'.kind = "blend") =>
            /\ HasSession
            /\ Len(blendSelection) = 2
            /\ \A n \in 1 .. 2 :
                  /\ SelectedArtifacts(blendSelection[n]) # { }
                  /\ \A j \in SelectedArtifacts(blendSelection[n]) :
                        CurrentSession.artifacts[j].status = "complete"]_vars
    /\ [][(Len(sessions') > Len(sessions) \/ (~isLoading /\ isLoading'))
            => (job.kind = "none" /\ job'.kind # "none")]_vars

\* a blend has started from a session in which two artifacts are Complete and
\* another one is in Error
BlendStartedFromTwoComplete ==
    /\ job.kind = "blend"
    /\ Len(sessions) = 2
    /\ Cardinality({ j \in 1 .. 5 : sessions[1].artifacts[j].status = "complete" }) = 2
    /\ \E j \in 1 .. 5 : sessions[1].artifacts[j].status = "error"

\* C34: while the loading flag is true no workflow starts: no session is
\* appended and no orchestration replaces the one in flight; the flag is true
\* exactly while an orchestration is in flight and falls only when none of
\* its tasks is still reading.
OneOrchestrationAtATime ==
    /\ [][isLoading =>
            /\ Len(sessions') = Len(sessions)
            /\ job' = NoJob \/ (job'.kind = job.kind /\ job'.sessionId = job.sessionId)]_vars
    /\ [](isLoading <=> job.kind # "none")
    /\ [][(isLoading /\ ~isLoading') =>
            /\ job' = NoJob
            /\ \A k \in Slots : tasks'[k].pc # "reading"]_vars

\* loading, with tasks still reading, while everything else the four
\* workflows ask for is there: a focused Complete artifact and two selected
\* Complete artifacts
LoadingIsAllThatHoldsTheWorkflowsBack ==
    /\ isLoading
    /\ \E k \in Slots : tasks[k].pc = "reading"
    /\ Len(sessions) < MaxSessions
    /\ HasSession
    /\ focusedArtifactIndex # NULL
    /\ FocusedArtifact.status = "complete"
    /\ Len(blendSelection) = 2
    /\ \A n \in 1 .. 2 : \A j \in SelectedArtifacts(blendSelection[n]) :
          CurrentSession.artifacts[j].status = "complete"


\* C36: the requests of a workflow started by Start, More like this or Blend
\* carry the model id that is selected when the workflow is invoked, whatever
\* changes of the selection came before.
RequestsCarryTheSelectedModel ==
    [][(job.kind = "none" /\ job'.kind \in {"send", "more", "blend"})
          => job'.modelId = selectedModelId]_vars


\* the sequence holds no id twice
NoDuplicates(seq) == \A m, n \in DOMAIN seq : seq[m] = seq[n] => m = n

\* a step that changes the blend selection and nothing else of the sessions:
\* a toggle
IsToggle ==
    /\ blendSelection' # blendSelection
    /\ sessions' = sessions
    /\ currentSessionIndex' = currentSessionIndex

\* C39: the blend selection holds at most two ids and none twice; a toggle of
\* a selected id removes it and keeps the other; a toggle of an unselected id
\* appends it when fewer than two are held, and when two are held drops the
\* older and keeps the newer followed by the new id.
BlendSelectionKeepsTheTwoNewest ==
    /\ [](Len(blendSelection) <= 2 /\ NoDuplicates(blendSelection))
    /\ [][IsToggle =>
            \/ \E n \in DOMAIN blendSelection :
                  blendSelection' = Without(blendSelection, blendSelection[n])
            \/ /\ Len(blendSelection) < 2
               /\ Len(blendSelection') = Len(blendSelection) + 1
               /\ SubSeq(blendSelection', 1, Len(blendSelection)) = blendSelection
               /\ ~Includes(blendSelection, blendSelection'[Len(blendSelection')])
            \/ /\ Len(blendSelection) = 2
               /\ Len(blendSelection') = 2
               /\ blendSelection'[1] = blendSelection[2]
               /\ ~Includes(blendSelection, blendSelection'[2])]_vars

\* two artifacts are selected, the later one first in its session, while a
\* third Complete artifact of the session is not selected
TwoSelectedOfThreeComplete ==
    /\ HasSession
    /\ Len(blendSelection) = 2
    /\ Cardinality({ j \in DOMAIN CurrentSession.artifacts :
                        CurrentSession.artifacts[j].status = "complete" }) = 3
    /\ blendSelection[2] = CurrentSession.artifacts[1].id


\* C40: for every fault and provider the classifier of the dev server and the
\* classifier of the serverless function answer with the same status code.
CopiesAnswerTheSameStatus ==
    \A i \in DOMAIN wire.calls, j \in DOMAIN wire.devCalls :
        wire.calls[i].status = wire.devCalls[j].status

\* both copies have classified a billing fault that also carries an upstream
\* status: each answered 402, with a message of its own
BothCopiesClassifiedABillingFault ==
    /\ "billing" \in wire.fault.classes
    /\ wire.fault.status = 503
    /\ Len(wire.calls) >= 1
    /\ Len(wire.devCalls) >= 1
    /\ wire.calls[1].status = 402
    /\ wire.devCalls[1].status = 402
    /\ wire.calls[1].message # wire.devCalls[1].message

\* the ids of the stored collections
CollectionIdsStored == { collections[m].id : m \in DOMAIN collections }

\* the component lists collection k in its collectionIds
ComponentListsCollection(component, k) == Includes(component.collectionIds, k)

\* collection k is stored and lists the component in its componentIds
CollectionListsComponent(k, component) ==
    \E m \in DOMAIN collections :
        /\ collections[m].id = k
        /\ Includes(collections[m].componentIds, component.id)

\* C37: membership is consistent in both directions: a saved component lists
\* collection k in collectionIds if and only if collection k is stored and
\* lists that component in componentIds.
MembershipIsConsistent ==
    \A n \in DOMAIN savedComponents :
        \A k \in CollectionIdsStored \cup
                 { savedComponents[n].collectionIds[i] :
                      i \in DOMAIN savedComponents[n].collectionIds } :
            ComponentListsCollection(savedComponents[n], k)
                <=> CollectionListsComponent(k, savedComponents[n])

\* C37, the steps other than a collection save: a membership update, a
\* creation and a deletion leave consistent membership consistent, and a
\* deletion leaves the deleted id in no saved component.
OtherStepsKeepMembershipConsistent ==
    [][(/\ MembershipIsConsistent
        /\ \A k \in DOMAIN collections : \A ids \in HeldComponentIds(collections[k]) :
              ~handleUpdateCollection([collections[k] EXCEPT !.componentIds = ids]))
       => /\ MembershipIsConsistent'
          /\ \A k \in CollectionIdsStored \ { collections'[m].id : m \in DOMAIN collections' } :
                \A n \in DOMAIN savedComponents' :
                    ~ComponentListsCollection(savedComponents'[n], k)]_vars

\* a component is a member of a collection, in both records
AComponentIsInACollection ==
    \E n \in DOMAIN savedComponents, m \in DOMAIN collections :
        /\ Includes(savedComponents[n].collectionIds, collections[m].id)
        /\ Includes(collections[m].componentIds, savedComponents[n].id)


\* no two entries of the store share an id
NoTwoEntriesShareAnId ==
    \A n, m \in DOMAIN savedComponents :
        savedComponents[n].id = savedComponents[m].id => n = m

\* the store holds at most one entry per (artifactId, sessionId) pair
OneEntryPerArtifact ==
    \A n, m \in DOMAIN savedComponents :
        (/\ savedComponents[n].artifactId = savedComponents[m].artifactId
         /\ savedComponents[n].sessionId = savedComponents[m].sessionId) => n = m

\* the artifact a component was saved from is Complete in the session
IsOfACompleteArtifact(component) ==
    \E s \in DOMAIN sessions : \E j \in DOMAIN sessions[s].artifacts :
        /\ sessions[s].id = component.sessionId
        /\ sessions[s].artifacts[j].id = component.artifactId
        /\ sessions[s].artifacts[j].status = "complete"

\* a step adds to the store only entries of artifacts that are Complete
OnlyCompleteArtifactsAreAdded ==
    \A n \in DOMAIN savedComponents' :
        IndexOfId(savedComponents, savedComponents'[n].id) = 0
            => IsOfACompleteArtifact(savedComponents'[n])

\* C38: after any sequence of save-to-library and favourite operations the
\* store holds at most one entry per (artifactId, sessionId) pair, no two
\* entries share an id, and an artifact whose status is not Complete is
\* never added to the store.
SavedComponentsAreUniqueAndComplete ==
    /\ [](NoTwoEntriesShareAnId /\ OneEntryPerArtifact)
    /\ [][OnlyCompleteArtifactsAreAdded]_vars

\* the store is full: it holds a favourite and an entry that is none, and an
\* artifact of a session that is not Complete is not in it
FullStoreBesideAnIncompleteArtifact ==
    /\ Len(savedComponents) = MaxComponents
    /\ \E n, m \in DOMAIN savedComponents :
          savedComponents[n].isFavorite /\ ~savedComponents[m].isFavorite
    /\ \E s \in DOMAIN sessions : \E j \in DOMAIN sessions[s].artifacts :
          /\ sessions[s].artifacts[j].status # "complete"
          /\ ExistingComponent(sessions[s].artifacts[j].id, sessions[s].id) = 0

====
